---- MODULE Spec2Model ----
(***************************************************************************)
(* A model of minishogilib's replay reservoir (src/src/reservoir.rs) and   *)
(* of its arena-backed MCTS (src/src/mcts.rs).                             *)
(*                                                                         *)
(* Four specifications share the variables:                                *)
(*   SpecSeq      the reservoir driven by one caller (push, load);         *)
(*   SpecRW       the reservoir driven by several threads, one step per    *)
(*                mutex acquisition or deque statement;                    *)
(*   SpecPlayouts the search tree under select_leaf / evaluate /           *)
(*                backpropagate from a fresh root;                         *)
(*   SpecTree     the search tree under every operation (set_root, dump).  *)
(***************************************************************************)
EXTENDS Integers, Sequences, FiniteSets, Bags, TLC

VARIABLES
    \* ---- Reservoir (reservoir.rs:16-23) ----
    records,            \* VecDeque<Record>
    learning_targets,   \* VecDeque<Vec<usize>>
    max_size,           \* usize
    write_count,        \* Mutex<u16>
    read_count,         \* Mutex<u16>
    log,                \* the file at json_path, a sequence of lines
    \* ---- callers of the reservoir ----
    write_lock,         \* the thread holding write_count's mutex across steps, or 0
    pc,                 \* per thread: the statement it is at
    arg,                \* per thread: the JSON line passed to push
    snap_records,       \* per thread: sample's local `records`
    snap_targets,       \* per thread: sample's local `learning_targets`
    calls,              \* number of calls started or made so far
    result,             \* the last push / load made by the single caller and its outcome
    pushed,             \* history: the records enqueued so far, in order
    all_ok,             \* history: no push or load has failed so far
    \* ---- MCTS (mcts.rs:92-99) ----
    game_tree,          \* Vec<Node>, indexed 0..size-1
    node_index,         \* the allocation cursor
    node_used_count,
    prev_root,
    \* ---- the driver of the search ----
    root,               \* the index set_root returned last
    root_pos,           \* the position (its kif) given to set_root last
    inflight,           \* bag of the playouts selected and not yet backpropagated
    completed,          \* history: per slot, the playouts backpropagated from it as
                        \* the leaf since the last set_root
    mpc,                \* "ready", or where a call that has not returned is
    probe               \* the allocation loop of a call that has not returned

resVars == <<records, learning_targets, max_size, write_count, read_count, log>>
callerVars == <<write_lock, pc, arg, snap_records, snap_targets, calls, result, pushed, all_ok>>
mctsVars == <<game_tree, node_index, node_used_count, prev_root>>
driverVars == <<root, root_pos, inflight, completed, mpc, probe>>
vars == <<resVars, callerVars, mctsVars, driverVars>>

(***************************************************************************)
(* Bounds of the model.                                                    *)
(***************************************************************************)
MaxMaxSize == 2      \* max_size ranges over 0..MaxMaxSize
MaxCalls == 3        \* calls made on one reservoir
NumThreads == 2      \* threads sharing one reservoir
NumRecords == 2      \* distinct well-formed records
MaxBatch == 2        \* mini_batch_size ranges over 0..MaxBatch

Threads == 1..NumThreads

(***************************************************************************)
(* Nodes and the arena.  Reals are fixed-point integers: v and w count     *)
(* 2^-24ths (V_ONE is 1.0), with the rounding of f32 where w is summed; p  *)
(* counts thousandths (P_ONE is 1.0).                                      *)
(***************************************************************************)
ArenaSize == 6       \* MCTS.size: slots 0..ArenaSize-1, slot 0 the sentinel
MaxPlayouts == 4     \* select_leaf calls on one root
MaxInflight == 2     \* playouts selected and not yet backpropagated
MAX_PLY == 2         \* the ply cap of the game
MaxVisits == 3       \* visits of one child of the root in a tree given to dump

V_ONE == 16777216
P_ONE == 1000
NULL_MOVE == 0

Slots == 0..(ArenaSize - 1)

\* Node::new forgetting the parent it is given.
NodeNewOrphan(parent, m, policy, is_used) ==
    [n |-> 0, v |-> 0, p |-> policy, w |-> 0, m |-> m, parent |-> 0,
     children |-> <<>>, is_terminal |-> FALSE, virtual_loss |-> 0, is_used |-> is_used]

\* Node::new, mcts.rs:25-38
NodeNew(parent, m, policy, is_used) ==
    [n |-> 0, v |-> 0, p |-> policy, w |-> 0, m |-> m, parent |-> parent,
     children |-> <<>>, is_terminal |-> FALSE, virtual_loss |-> 0, is_used |-> is_used]

\* Node::clear leaving the slot marked in use.
NodeClearFields(node) ==
    [node EXCEPT !.n = 0, !.v = 0, !.p = 0, !.w = 0, !.m = NULL_MOVE, !.parent = 0,
                 !.children = <<>>, !.is_terminal = FALSE, !.virtual_loss = 0]

\* Node::clear, mcts.rs:40-52
NodeClear(node) ==
    [node EXCEPT !.n = 0, !.v = 0, !.p = 0, !.w = 0, !.m = NULL_MOVE, !.parent = 0,
                 !.children = <<>>, !.is_terminal = FALSE, !.virtual_loss = 0,
                 !.is_used = FALSE]

\* Node::expanded, mcts.rs:86-88
Expanded(node) == Len(node.children) > 0

\* MCTS::new, mcts.rs:104-115
MctsNew ==
    /\ game_tree = [i \in Slots |-> NodeNew(0, NULL_MOVE, 0, FALSE)]
    /\ node_index = 0
    /\ node_used_count = 0
    /\ prev_root = 0

NoProbe == [node |-> 0, index |-> 0, steps |-> 0]

DriverNew ==
    /\ root = 0
    /\ root_pos = <<>>
    /\ inflight = EmptyBag
    /\ completed = [i \in Slots |-> 0]
    /\ mpc = "ready"
    /\ probe = NoProbe

NoSearch == MctsNew /\ DriverNew

(***************************************************************************)
(* Record lines.  A line of JSON is modelled by what from_json makes of    *)
(* it: malformed, or the record it describes.                              *)
(***************************************************************************)
TargetPlys(i) == [k \in 1..i |-> k - 1]

GoodLines == {[valid |-> TRUE, id |-> i, plys |-> TargetPlys(i)] : i \in 1..NumRecords}

BadLine == [valid |-> FALSE, id |-> 0, plys |-> <<>>]

JsonLines == GoodLines \cup {BadLine}

\* Record::from_json: the call fails on a line that is no record.
FromJsonOk(line) == line.valid

FromJson(line) == [id |-> line.id, learning_target_plys |-> line.plys]

(***************************************************************************)
(* push_with_option, statement by statement.                               *)
(***************************************************************************)
PopFront(q) == IF Len(q) = 0 THEN q ELSE Tail(q)

AtCapacity(recs, max) == Len(recs) = max

\* reservoir.rs:40-43
EvictRecords(recs, max) == IF AtCapacity(recs, max) THEN PopFront(recs) ELSE recs

EvictTargets(recs, lts, max) == IF AtCapacity(recs, max) THEN PopFront(lts) ELSE lts

\* reservoir.rs:47-48
PushBackRecord(recs, line) == Append(recs, FromJson(line))

PushBackTargets(lts, line) == Append(lts, FromJson(line).learning_target_plys)

\* What the file system makes of the three calls of reservoir.rs:51-53.
\* "written": all succeed.  "open_failed", "write_failed", "newline_failed":
\* the call named returns Err and unwrap panics.  "short_write": the write of
\* the record returns Ok(n) with n below the length given, as Write::write
\* may, and the code does not look at n.
LogOutcomes == {"written", "open_failed", "write_failed", "short_write", "newline_failed"}

LogFailures == {"open_failed", "write_failed", "newline_failed"}

\* What one call leaves in the file: the text of `line` whole or cut short,
\* followed by a newline or not.
LogEntry(line, whole, newline) == [text |-> line, whole |-> whole, newline |-> newline]

\* reservoir.rs:50-54
WriteLog(lg, line, outcome) ==
    CASE outcome = "written" -> Append(lg, LogEntry(line, TRUE, TRUE))
      [] outcome = "short_write" -> Append(lg, LogEntry(line, FALSE, TRUE))
      [] outcome = "newline_failed" -> Append(lg, LogEntry(line, TRUE, FALSE))
      [] OTHER -> lg

AppendLog(lg, line, dolog) == IF dolog THEN WriteLog(lg, line, "written") ELSE lg

\* push_with_option writing the log before it touches the deques.
PushWithOptionLogFirst(st, line, dolog, outcome) ==
    LET r1 == EvictRecords(st.records, st.max_size)
        l1 == EvictTargets(st.records, st.learning_targets, st.max_size)
    IN  IF ~FromJsonOk(line)
        THEN [st EXCEPT !.records = r1, !.learning_targets = l1, !.ok = FALSE]
        ELSE IF dolog /\ outcome \in LogFailures
        THEN [st EXCEPT !.records = r1, !.learning_targets = l1,
                        !.log = WriteLog(st.log, line, outcome),
                        !.ok = FALSE, !.io = outcome]
        ELSE [st EXCEPT !.records = PushBackRecord(r1, line),
                        !.learning_targets = PushBackTargets(l1, line),
                        !.log = IF dolog THEN WriteLog(st.log, line, outcome) ELSE st.log,
                        !.ok = TRUE,
                        !.io = IF dolog THEN outcome ELSE st.io,
                        !.pushed = Append(st.pushed, FromJson(line))]

\* The whole of push_with_option on (records, learning_targets, log), given
\* what the file system makes of the log calls.  The eviction runs before
\* the line is parsed; a line that does not parse ends the call at line 45,
\* a failure of a log call ends it at that call, after the push_backs.
PushWithOption(st, line, dolog, outcome) ==
    LET r1 == EvictRecords(st.records, st.max_size)
        l1 == EvictTargets(st.records, st.learning_targets, st.max_size)
    IN  IF ~FromJsonOk(line)
        THEN [st EXCEPT !.records = r1, !.learning_targets = l1, !.ok = FALSE]
        ELSE [st EXCEPT !.records = PushBackRecord(r1, line),
                        !.learning_targets = PushBackTargets(l1, line),
                        !.log = IF dolog THEN WriteLog(st.log, line, outcome) ELSE st.log,
                        !.ok = ~(dolog /\ outcome \in LogFailures),
                        !.io = IF dolog THEN outcome ELSE st.io,
                        !.pushed = Append(st.pushed, FromJson(line))]

\* load: push_with_option(line, false) for each line, stopping at a failure.
RECURSIVE LoadLines(_, _)
LoadLines(st, lines) ==
    IF Len(lines) = 0 \/ ~st.ok THEN st
    ELSE LoadLines(PushWithOption(st, Head(lines), FALSE, "written"), Tail(lines))

ResState ==
    [records |-> records, learning_targets |-> learning_targets, log |-> log,
     max_size |-> max_size, ok |-> TRUE, io |-> "none", pushed |-> pushed]

SetResState(st, op, lines) ==
    /\ records' = st.records
    /\ learning_targets' = st.learning_targets
    /\ log' = st.log
    /\ pushed' = st.pushed
    /\ result' = [op |-> op, lines |-> lines, ok |-> st.ok, io |-> st.io]
    /\ all_ok' = (all_ok /\ st.ok)

(***************************************************************************)
(* The reservoir with a single caller.                                     *)
(***************************************************************************)
ThreadsIdle ==
    /\ write_lock = 0
    /\ pc = [t \in Threads |-> "idle"]
    /\ arg = [t \in Threads |-> BadLine]
    /\ snap_records = [t \in Threads |-> <<>>]
    /\ snap_targets = [t \in Threads |-> <<>>]

\* Reservoir::new
New(max) ==
    /\ records = <<>>
    /\ learning_targets = <<>>
    /\ max_size = max
    /\ write_count = 0
    /\ read_count = 0
    /\ log = <<>>
    /\ calls = 0
    /\ result = [op |-> "none", lines |-> <<>>, ok |-> TRUE, io |-> "none"]
    /\ pushed = <<>>
    /\ all_ok = TRUE

InitSeq == (\E max \in 0..MaxMaxSize : New(max)) /\ ThreadsIdle /\ NoSearch

\* push by a single caller: nothing else runs, the wait loop falls through.
\* A call that panics does not reach the decrement of line 71.
Push(line, outcome) ==
    /\ UNCHANGED <<mctsVars, driverVars>>
    /\ calls < MaxCalls
    /\ write_count = 0 /\ read_count = 0
    /\ calls' = calls + 1
    /\ LET st == PushWithOption(ResState, line, TRUE, outcome)
       IN  /\ SetResState(st, "push", <<line>>)
           /\ write_count' = IF st.ok THEN write_count ELSE write_count + 1
    /\ UNCHANGED <<max_size, read_count, write_lock, pc, arg, snap_records, snap_targets>>

LoadFiles == {<<a>> : a \in JsonLines} \cup {<<a, b>> : a \in GoodLines, b \in JsonLines}

Load(lines) ==
    /\ UNCHANGED <<mctsVars, driverVars>>
    /\ calls < MaxCalls
    /\ calls' = calls + 1
    /\ SetResState(LoadLines(ResState, lines), "load", lines)
    /\ UNCHANGED <<max_size, write_count, read_count, write_lock, pc, arg,
                   snap_records, snap_targets>>

(***************************************************************************)
(* sample, after its copies of the deques.  Indices count from 0 as in the *)
(* code; the deques are sequences indexed from 1.                          *)
(***************************************************************************)
\* (8 * 33 + 2) * 5 * 5, the length of one input array
INPUT_LEN == 6650
\* 69 * 5 * 5, the length of one policy array
POLICY_LEN == 1725

\* reservoir.rs:100-104: cumulative_plys[k]
RECURSIVE CumulativePlys(_, _)
CumulativePlys(lts, k) ==
    IF k = 0 THEN 0 ELSE CumulativePlys(lts, k - 1) + Len(lts[k])

RECURSIVE InsertSorted(_, _)
InsertSorted(s, x) ==
    IF Len(s) = 0 THEN <<x>>
    ELSE IF x <= Head(s) THEN <<x>> \o s
    ELSE <<Head(s)>> \o InsertSorted(Tail(s), x)

\* reservoir.rs:109: indicies.sort()
RECURSIVE SortIndicies(_)
SortIndicies(s) == IF Len(s) = 0 THEN <<>> ELSE InsertSorted(SortIndicies(Tail(s)), Head(s))

\* reservoir.rs:118-126
RECURSIVE BinarySearch(_, _, _, _)
BinarySearch(lts, x, ok, ng) ==
    IF ng - ok > 1
    THEN LET mid == (ok + ng) \div 2
         IN  IF x >= CumulativePlys(lts, mid) THEN BinarySearch(lts, x, mid, ng)
             ELSE BinarySearch(lts, x, ok, mid)
    ELSE ok

\* The loop of lines 113-132 taking the first ply of the record found.
RECURSIVE TargetsLoopFirstPly(_, _, _, _)
TargetsLoopFirstPly(lts, max, indicies, lo) ==
    IF Len(indicies) = 0 THEN <<>>
    ELSE LET ok == BinarySearch(lts, Head(indicies), lo, max + 1)
         IN  <<<<ok, lts[ok + 1][1]>>>> \o TargetsLoopFirstPly(lts, max, Tail(indicies), ok)

\* reservoir.rs:113-132: the (record index, ply) of each sorted index.
RECURSIVE TargetsLoop(_, _, _, _)
TargetsLoop(lts, max, indicies, lo) ==
    IF Len(indicies) = 0 THEN <<>>
    ELSE LET ok == BinarySearch(lts, Head(indicies), lo, max + 1)
             ply == lts[ok + 1][Head(indicies) - CumulativePlys(lts, ok) + 1]
         IN  <<<<ok, ply>>>> \o TargetsLoop(lts, max, Tail(indicies), ok)

\* reservoir.rs:175-187: the lengths of the three arrays returned.
SampleShape(mini_batch_size) ==
    <<mini_batch_size * INPUT_LEN, mini_batch_size * POLICY_LEN, mini_batch_size>>

\* The indexing of line 103 is out of bounds when fewer than max_size lists
\* are stored, and the range of line 106 is empty when the first max_size
\* lists hold no ply: the call panics.
SamplePanics(lts, max) == Len(lts) < max \/ CumulativePlys(lts, max) = 0

\* The values line 107 can draw.
SampleDraws(lts, max, mini_batch_size) ==
    IF SamplePanics(lts, max) THEN {[k \in 1..mini_batch_size |-> 0]}
    ELSE [1..mini_batch_size -> 0..(CumulativePlys(lts, max) - 1)]

\* sample from line 100 on, given the values drawn.
SampleOp(recs, lts, max, draws) ==
    IF SamplePanics(lts, max)
    THEN [ok |-> FALSE, indicies |-> <<>>, targets |-> <<>>, shape |-> <<0, 0, 0>>]
    ELSE [ok |-> TRUE, indicies |-> SortIndicies(draws),
          targets |-> TargetsLoop(lts, max, SortIndicies(draws), 0),
          shape |-> SampleShape(Len(draws))]

\* sample by a single caller: nothing else runs, the wait loop falls through.
Sample(draws) ==
    /\ UNCHANGED <<mctsVars, driverVars>>
    /\ calls < MaxCalls
    /\ write_count = 0
    /\ calls' = calls + 1
    /\ LET r == SampleOp(records, learning_targets, max_size, draws)
       IN  result' = [op |-> "sample", lines |-> <<>>, ok |-> r.ok,
                      batch |-> Len(draws), indicies |-> r.indicies,
                      targets |-> r.targets, shape |-> r.shape]
    /\ UNCHANGED <<resVars, write_lock, pc, arg, snap_records, snap_targets, pushed, all_ok>>

NextSeq ==
    \/ \E line \in JsonLines, outcome \in LogOutcomes : Push(line, outcome)
    \/ \E lines \in LoadFiles : Load(lines)
    \/ \E mini_batch_size \in 0..MaxBatch :
          \E draws \in SampleDraws(learning_targets, max_size, mini_batch_size) : Sample(draws)

SpecSeq == InitSeq /\ [][NextSeq]_vars

(***************************************************************************)
(* The reservoir with several threads.  A step is one acquisition of a     *)
(* counter's mutex or one statement on the deques.  The guard returned by  *)
(* write_count.lock() in push's condition (line 62) lives to the end of    *)
(* the condition, so it is held while read_count is locked and read; every *)
(* other guard is dropped in the statement that takes it.                  *)
(***************************************************************************)
InitRW == (\E max \in 1..MaxMaxSize : New(max)) /\ ThreadsIdle /\ NoSearch

Goto(t, where) == pc' = [pc EXCEPT ![t] = where]

\* A thread calls push(line).  reservoir.rs:57-59
PushCall(t, line) ==
    /\ UNCHANGED <<mctsVars, driverVars>>
    /\ pc[t] = "idle" /\ calls < MaxCalls
    /\ calls' = calls + 1
    /\ arg' = [arg EXCEPT ![t] = line]
    /\ Goto(t, "push_wait")
    /\ UNCHANGED <<resVars, write_lock, snap_records, snap_targets, result, pushed, all_ok>>

\* reservoir.rs:62, first operand: lock write_count and compare it with 0.
PushTestWrite(t) ==
    /\ UNCHANGED <<mctsVars, driverVars>>
    /\ pc[t] = "push_wait" /\ write_lock = 0
    /\ IF write_count = 0
       THEN write_lock' = t /\ Goto(t, "push_test_read")
       ELSE UNCHANGED write_lock /\ Goto(t, "push_wait")
    /\ UNCHANGED <<resVars, arg, snap_records, snap_targets, calls, result, pushed, all_ok>>

\* reservoir.rs:62, second operand: lock read_count and compare it with 0;
\* both guards are dropped as the condition ends.
PushTestRead(t) ==
    /\ UNCHANGED <<mctsVars, driverVars>>
    /\ pc[t] = "push_test_read" /\ write_lock = t
    /\ write_lock' = 0
    /\ Goto(t, IF read_count = 0 THEN "push_claim" ELSE "push_wait")
    /\ UNCHANGED <<resVars, arg, snap_records, snap_targets, calls, result, pushed, all_ok>>

\* reservoir.rs:64
PushClaim(t) ==
    /\ UNCHANGED <<mctsVars, driverVars>>
    /\ pc[t] = "push_claim" /\ write_lock = 0
    /\ write_count' = write_count + 1
    /\ Goto(t, "push_evict")
    /\ UNCHANGED <<records, learning_targets, max_size, read_count, log, write_lock, arg,
                   snap_records, snap_targets, calls, result, pushed, all_ok>>

\* reservoir.rs:40-43
PushEvict(t) ==
    /\ UNCHANGED <<mctsVars, driverVars>>
    /\ pc[t] = "push_evict"
    /\ records' = EvictRecords(records, max_size)
    /\ learning_targets' = EvictTargets(records, learning_targets, max_size)
    /\ Goto(t, "push_parse")
    /\ UNCHANGED <<max_size, write_count, read_count, log, write_lock, arg,
                   snap_records, snap_targets, calls, result, pushed, all_ok>>

\* reservoir.rs:45: the call ends here when the line is no record, and
\* line 71 is never reached.
PushParse(t) ==
    /\ UNCHANGED <<mctsVars, driverVars>>
    /\ pc[t] = "push_parse"
    /\ Goto(t, IF FromJsonOk(arg[t]) THEN "push_records" ELSE "failed")
    /\ all_ok' = (all_ok /\ FromJsonOk(arg[t]))
    /\ UNCHANGED <<resVars, write_lock, arg, snap_records, snap_targets, calls, result, pushed>>

\* reservoir.rs:47
PushRecords(t) ==
    /\ UNCHANGED <<mctsVars, driverVars>>
    /\ pc[t] = "push_records"
    /\ records' = PushBackRecord(records, arg[t])
    /\ pushed' = Append(pushed, FromJson(arg[t]))
    /\ Goto(t, "push_targets")
    /\ UNCHANGED <<learning_targets, max_size, write_count, read_count, log, write_lock, arg,
                   snap_records, snap_targets, calls, result, all_ok>>

\* reservoir.rs:48
PushTargets(t) ==
    /\ UNCHANGED <<mctsVars, driverVars>>
    /\ pc[t] = "push_targets"
    /\ learning_targets' = PushBackTargets(learning_targets, arg[t])
    /\ Goto(t, "push_log")
    /\ UNCHANGED <<records, max_size, write_count, read_count, log, write_lock, arg,
                   snap_records, snap_targets, calls, result, pushed, all_ok>>

\* reservoir.rs:50-54
PushLog(t) ==
    /\ UNCHANGED <<mctsVars, driverVars>>
    /\ pc[t] = "push_log"
    /\ log' = AppendLog(log, arg[t], TRUE)
    /\ Goto(t, "push_release")
    /\ UNCHANGED <<records, learning_targets, max_size, write_count, read_count, write_lock,
                   arg, snap_records, snap_targets, calls, result, pushed, all_ok>>

\* reservoir.rs:71
PushRelease(t) ==
    /\ UNCHANGED <<mctsVars, driverVars>>
    /\ pc[t] = "push_release" /\ write_lock = 0
    /\ write_count' = write_count - 1
    /\ Goto(t, "idle")
    /\ UNCHANGED <<records, learning_targets, max_size, read_count, log, write_lock, arg,
                   snap_records, snap_targets, calls, result, pushed, all_ok>>

\* A thread calls sample.  reservoir.rs:83-85
SampleCall(t) ==
    /\ UNCHANGED <<mctsVars, driverVars>>
    /\ pc[t] = "idle" /\ calls < MaxCalls
    /\ calls' = calls + 1
    /\ Goto(t, "sample_wait")
    /\ UNCHANGED <<resVars, write_lock, arg, snap_records, snap_targets, result, pushed, all_ok>>

\* reservoir.rs:88
SampleTestWrite(t) ==
    /\ UNCHANGED <<mctsVars, driverVars>>
    /\ pc[t] = "sample_wait" /\ write_lock = 0
    /\ Goto(t, IF write_count = 0 THEN "sample_admit" ELSE "sample_wait")
    /\ UNCHANGED <<resVars, write_lock, arg, snap_records, snap_targets, calls, result,
                   pushed, all_ok>>

\* reservoir.rs:90
SampleAdmit(t) ==
    /\ UNCHANGED <<mctsVars, driverVars>>
    /\ pc[t] = "sample_admit"
    /\ read_count' = read_count + 1
    /\ Goto(t, "sample_copy_records")
    /\ UNCHANGED <<records, learning_targets, max_size, write_count, log, write_lock, arg,
                   snap_records, snap_targets, calls, result, pushed, all_ok>>

\* reservoir.rs:95
SampleCopyRecords(t) ==
    /\ UNCHANGED <<mctsVars, driverVars>>
    /\ pc[t] = "sample_copy_records"
    /\ snap_records' = [snap_records EXCEPT ![t] = records]
    /\ Goto(t, "sample_copy_targets")
    /\ UNCHANGED <<resVars, write_lock, arg, snap_targets, calls, result, pushed, all_ok>>

\* reservoir.rs:96
SampleCopyTargets(t) ==
    /\ UNCHANGED <<mctsVars, driverVars>>
    /\ pc[t] = "sample_copy_targets"
    /\ snap_targets' = [snap_targets EXCEPT ![t] = learning_targets]
    /\ Goto(t, "sample_release")
    /\ UNCHANGED <<resVars, write_lock, arg, snap_records, calls, result, pushed, all_ok>>

\* reservoir.rs:98; the rest of sample works on the two copies.
SampleRelease(t) ==
    /\ UNCHANGED <<mctsVars, driverVars>>
    /\ pc[t] = "sample_release"
    /\ read_count' = read_count - 1
    /\ Goto(t, "idle")
    /\ UNCHANGED <<records, learning_targets, max_size, write_count, log, write_lock, arg,
                   snap_records, snap_targets, calls, result, pushed, all_ok>>

NextRW ==
    \E t \in Threads :
        \/ \E line \in JsonLines : PushCall(t, line)
        \/ PushTestWrite(t)
        \/ PushTestRead(t)
        \/ PushClaim(t)
        \/ PushEvict(t)
        \/ PushParse(t)
        \/ PushRecords(t)
        \/ PushTargets(t)
        \/ PushLog(t)
        \/ PushRelease(t)
        \/ SampleCall(t)
        \/ SampleTestWrite(t)
        \/ SampleAdmit(t)
        \/ SampleCopyRecords(t)
        \/ SampleCopyTargets(t)
        \/ SampleRelease(t)

SpecRW == InitRW /\ [][NextRW]_vars

(***************************************************************************)
(* Claims about the reservoir's counters.                                  *)
(***************************************************************************)
WriterSection ==
    {"push_evict", "push_parse", "push_records", "push_targets", "push_log", "push_release"}

ReaderSection == {"sample_copy_records", "sample_copy_targets", "sample_release"}

Writers == {t \in Threads : pc[t] \in WriterSection}

Readers == {t \in Threads : pc[t] \in ReaderSection}

\* C1 (as claimed): at most one push is between claiming the writer slot and
\* releasing it; write_count never exceeds 1.
C1_SingleWriter == write_count <= 1 /\ Cardinality(Writers) <= 1

\* C2 (as claimed): no sample is inside its reader section while a push is
\* inside its writer section.
C2_ReaderWriterExclusion == ~(Readers # {} /\ Writers # {})

(***************************************************************************)
(* Claims about the reservoir with a single caller.                        *)
(***************************************************************************)
LastOf(s, k) == SubSeq(s, Len(s) - k + 1, Len(s))

\* C3 (as claimed): for every max_size, 0 and 1 included, while every call
\* has succeeded the reservoir never holds more than max_size records, and
\* once more than max_size records were pushed it holds exactly the last
\* max_size of them in push order.
C3_FifoEviction ==
    all_ok =>
        /\ Len(records) <= max_size
        /\ Len(pushed) > max_size => records = LastOf(pushed, max_size)

\* C4 (as claimed): a push or load given one line that is no record fails
\* and leaves records, learning_targets and the log as they were.
C4_MalformedUnchanged ==
    [][(calls' = calls + 1 /\ Len(result'.lines) = 1 /\ ~FromJsonOk(result'.lines[1]))
        => /\ ~result'.ok
           /\ records' = records
           /\ learning_targets' = learning_targets
           /\ log' = log]_vars

(***************************************************************************)
(* The Position collaborator: a small game.  A position is its kif, the    *)
(* sequence of moves played.  Move 2 stands for a pawn drop.  A side that  *)
(* faces the same move twice in a row is mated; a 2 answered by a 1 is a   *)
(* repetition.                                                             *)
(***************************************************************************)
Moves == {1, 2}

Ply(kif) == Len(kif)

DoMove(kif, m) == Append(kif, m)

NoLegalMoves(kif) == Len(kif) >= 2 /\ kif[Len(kif)] = kif[Len(kif) - 1]

GenerateMoves(kif) == IF NoLegalMoves(kif) THEN <<>> ELSE <<1, 2>>

\* Position::is_repetition: (is_repetition, my_check_repetition, op_check_repetition)
IsRepetition(kif) ==
    LET k == Len(kif)
        rep == k >= 2 /\ kif[k - 1] = 2 /\ kif[k] = 1
    IN  <<rep, rep /\ k >= 3 /\ kif[k - 2] = 1, rep /\ k >= 3 /\ kif[k - 2] = 2>>

SideToMoveIsWhite(kif) == Len(kif) % 2 = 0

LastMoveIsPawnDrop(kif) == kif[Len(kif)] = 2

GameOver(kif) == NoLegalMoves(kif) \/ IsRepetition(kif)[1] \/ Ply(kif) >= MAX_PLY

\* The positions a game can reach.
RECURSIVE Playable(_)
Playable(kif) ==
    IF Len(kif) = 0 THEN TRUE
    ELSE LET before == SubSeq(kif, 1, Len(kif) - 1)
         IN  Playable(before) /\ ~GameOver(before)

Positions == {kif \in UNION {[1..k -> Moves] : k \in 0..MAX_PLY} : Playable(kif)}

(***************************************************************************)
(* Network outputs.  A policy vector is given by the exponentials of its   *)
(* logits, so that the legality-masked softmax is exact.                   *)
(***************************************************************************)
PolicyVecs == {[m \in Moves |-> 1], [m \in Moves |-> IF m = 1 THEN 3 ELSE 1]}

Values == {0, V_ONE}

ToPolicyIndex(m) == m

RECURSIVE SeqMax(_, _)
SeqMax(s, f) ==
    IF Len(s) = 0 THEN 0
    ELSE LET rest == SeqMax(Tail(s), f)
         IN  IF f[ToPolicyIndex(Head(s))] > rest THEN f[ToPolicyIndex(Head(s))] ELSE rest

RECURSIVE SeqSum(_, _)
SeqSum(s, f) == IF Len(s) = 0 THEN 0 ELSE f[ToPolicyIndex(Head(s))] + SeqSum(Tail(s), f)

\* mcts.rs:340-348 and 394: exp(policy[i] - policy_max) / legal_policy_sum.  With
\* e[i] the exponential of policy[i], that is (e[i] / e_max) / (sum / e_max).
Softmax(moves, policy, m) == (P_ONE * policy[ToPolicyIndex(m)]) \div SeqSum(moves, policy)

(***************************************************************************)
(* Square roots and the PUCT score, in fixed point.                        *)
(***************************************************************************)
RECURSIVE IsqrtBetween(_, _, _)
IsqrtBetween(x, lo, hi) ==
    IF hi - lo <= 1 THEN lo
    ELSE LET mid == (lo + hi) \div 2
         IN  IF mid * mid <= x THEN IsqrtBetween(x, mid, hi) ELSE IsqrtBetween(x, lo, mid)

\* floor(sqrt(x))
Isqrt(x) == IsqrtBetween(x, 0, 46340)

\* std::f32::MAX (mcts.rs:57): above every score the model computes.
F32_MAX == 2000000000
\* 1.0 on the scale of the PUCT score.
PUCT_ONE == 100000000

\* x / 1.0 on the scale of the PUCT score: x * PUCT_ONE / V_ONE, which is
\* x * 390625 / 65536, taken digit by digit of x in base 256 to stay within
\* 32-bit integers.
ScaleToPuct(x) ==
    LET hi == x \div V_ONE
        lo == x % V_ONE
    IN  hi * PUCT_ONE + (lo \div 65536) * 390625
                      + (((lo \div 256) % 256) * 390625) \div 256
                      + ((lo % 256) * 390625) \div 65536

\* sqrt(2 * p * parent_n) rounded up to an integer.
NForcedCeil(node, parent_n) ==
    LET below == Isqrt((2 * node.p * parent_n) \div P_ONE)
    IN  IF below * below * P_ONE = 2 * node.p * parent_n THEN below ELSE below + 1

\* sqrt(2 * p * parent_n) as usize, mcts.rs:546-549
NForcedFloor(node, parent_n) == Isqrt((2 * node.p * parent_n) \div P_ONE)

\* (self.n as f32) < (2.0 * self.p * parent_n).sqrt(), mcts.rs:65-66
BelowForced(node, parent_n) == node.n * node.n * P_ONE < 2 * node.p * parent_n

\* get_puct looking at the forced playouts before it looks at the outcome of a
\* terminal node.
GetPuctForcedFirst(node, parent_n, forced_playouts) ==
    IF forced_playouts /\ BelowForced(node, parent_n) THEN F32_MAX
    ELSE IF node.is_terminal /\ node.v = 0 THEN F32_MAX
    ELSE IF node.is_terminal /\ node.v = V_ONE THEN -PUCT_ONE
    ELSE LET nv == node.n + node.virtual_loss
             c == (7341 * (1 + node.n)) \div 10000 + 12500
             q == IF nv = 0 THEN 0
                  ELSE PUCT_ONE - ScaleToPuct(node.w + V_ONE * node.virtual_loss) \div nv
             u == (node.p * Isqrt(parent_n * 1000000)) \div (100 * (1 + nv))
         IN  q + c * u

\* Node::get_puct, mcts.rs:54-84.  c counts 1/10000, u counts 1/10000, the
\* score counts 1/PUCT_ONE; log2(1 + x) is x / ln 2 for the small x that occur.
GetPuct(node, parent_n, forced_playouts) ==
    IF node.is_terminal /\ node.v = 0 THEN F32_MAX
    ELSE IF node.is_terminal /\ node.v = V_ONE THEN -PUCT_ONE
    ELSE IF forced_playouts /\ BelowForced(node, parent_n) THEN F32_MAX
    ELSE LET nv == node.n + node.virtual_loss
             c == (7341 * (1 + node.n)) \div 10000 + 12500
             q == IF nv = 0 THEN 0
                  ELSE PUCT_ONE - ScaleToPuct(node.w + V_ONE * node.virtual_loss) \div nv
             u == (node.p * Isqrt(parent_n * 1000000)) \div (100 * (1 + nv))
         IN  q + c * u

RECURSIVE PuctMaxLoop(_, _, _, _, _, _)
PuctMaxLoop(tree, children, parent_n, forced_playouts, puct_max, puct_max_child) ==
    IF Len(children) = 0 THEN puct_max_child
    ELSE LET child == Head(children)
             puct == GetPuct(tree[child], parent_n, forced_playouts)
         IN  IF puct_max_child = 0 \/ puct > puct_max
             THEN PuctMaxLoop(tree, Tail(children), parent_n, forced_playouts, puct, child)
             ELSE PuctMaxLoop(tree, Tail(children), parent_n, forced_playouts, puct_max,
                              puct_max_child)

\* MCTS::select_puct_max_child, mcts.rs:677-694
SelectPuctMaxChild(tree, node, forced_playouts) ==
    PuctMaxLoop(tree, tree[node].children, tree[node].n + tree[node].virtual_loss,
                forced_playouts, -PUCT_ONE, 0)

RECURSIVE NMaxLoop(_, _, _, _)
NMaxLoop(tree, children, n_max, n_max_child) ==
    IF Len(children) = 0 THEN n_max_child
    ELSE LET child == Head(children)
         IN  IF n_max_child = 0 \/ tree[child].n > n_max
             THEN NMaxLoop(tree, Tail(children), tree[child].n, child)
             ELSE NMaxLoop(tree, Tail(children), n_max, n_max_child)

\* MCTS::select_n_max_child, mcts.rs:697-709
SelectNMaxChild(tree, node) == NMaxLoop(tree, tree[node].children, 0, 0)

(***************************************************************************)
(* The operations of MCTS, as functions of the engine's state              *)
(* st = [tree, node_index, node_used_count, prev_root].                    *)
(***************************************************************************)
Engine == [tree |-> game_tree, node_index |-> node_index,
           node_used_count |-> node_used_count, prev_root |-> prev_root]

SetEngine(st) ==
    /\ game_tree' = st.tree
    /\ node_index' = st.node_index
    /\ node_used_count' = st.node_used_count
    /\ prev_root' = st.prev_root

RECURSIVE EliminateLoop(_, _, _)
EliminateLoop(st, nodes, except_node) ==
    IF Len(nodes) = 0 THEN st
    ELSE LET n == nodes[Len(nodes)]
             popped == SubSeq(nodes, 1, Len(nodes) - 1)
         IN  IF n = except_node THEN EliminateLoop(st, popped, except_node)
             ELSE EliminateLoop(
                    [st EXCEPT !.tree = [@ EXCEPT ![n] = NodeClear(@)],
                               !.node_used_count = @ - 1],
                    popped \o st.tree[n].children, except_node)

\* eliminate_except not stopping at except_node.
EliminateAll(st, root_node, except_node) == EliminateLoop(st, <<root_node>>, 0)

\* MCTS::eliminate_except, mcts.rs:655-674
EliminateExcept(st, root_node, except_node) == EliminateLoop(st, <<root_node>>, except_node)

\* clear resetting the counters without freeing the previous tree.
ClearCountersOnly(st) ==
    [st EXCEPT !.node_index = 1, !.node_used_count = 1, !.prev_root = 0]

\* MCTS::clear, mcts.rs:118-126
Clear(st) ==
    LET s1 == IF st.prev_root # 0 THEN EliminateExcept(st, st.prev_root, 0) ELSE st
    IN  [s1 EXCEPT !.node_index = 1, !.node_used_count = 1, !.prev_root = 0]

RECURSIVE FirstChildWithMove(_, _, _)
FirstChildWithMove(tree, children, m) ==
    IF Len(children) = 0 THEN 0
    ELSE IF tree[Head(children)].m = m THEN Head(children)
    ELSE FirstChildWithMove(tree, Tail(children), m)

\* mcts.rs:134-144: the child of the previous root to go on from, or 0.
NextRoot(st, position, reuse) ==
    IF reuse /\ st.tree[st.prev_root].is_used /\ Ply(position) > 0
    THEN FirstChildWithMove(st.tree, st.tree[st.prev_root].children, position[Ply(position)])
    ELSE 0

\* MCTS::set_root, mcts.rs:133-164; the returned index is prev_root.
SetRootOp(st, position, reuse) ==
    LET next_root == NextRoot(st, position, reuse)
    IN  IF next_root # 0
        THEN LET s1 == EliminateExcept(st, st.prev_root, next_root)
             IN  [s1 EXCEPT !.prev_root = next_root,
                            !.tree = [@ EXCEPT ![next_root].parent = 0]]
        ELSE LET s1 == Clear(st)
             IN  [s1 EXCEPT !.tree = [@ EXCEPT ![1].is_used = TRUE],
                            !.node_index = 2, !.node_used_count = 2, !.prev_root = 1]

RECURSIVE SelectLoop(_, _, _, _)
SelectLoop(tree, node, position, forced_playouts) ==
    LET t1 == [tree EXCEPT ![node].virtual_loss = @ + 1]
    IN  IF t1[node].is_terminal \/ ~Expanded(t1[node])
        THEN [tree |-> t1, node |-> node, position |-> position]
        ELSE LET next == SelectPuctMaxChild(t1, node, forced_playouts)
             IN  SelectLoop(t1, next, DoMove(position, t1[next].m), forced_playouts)

\* select_leaf without the increments of virtual_loss.
SelectLeafNoLoss(tree, root_node, position, forced_playouts) ==
    [SelectLoop(tree, root_node, position, forced_playouts) EXCEPT !.tree = tree]

\* MCTS::select_leaf, mcts.rs:291-313
SelectLeafOp(tree, root_node, position, forced_playouts) ==
    SelectLoop(tree, root_node, position, forced_playouts)

\* mcts.rs:352-354
IsTerminalPosition(position) ==
    IsRepetition(position)[1] \/ Len(GenerateMoves(position)) = 0 \/ Ply(position) = MAX_PLY

\* The value written for the node if the ply cap were not looked at.
EvaluatedValueNoCap(position, is_terminal, value) ==
    LET rep == IsRepetition(position)
        v1 == IF ~is_terminal THEN value
              ELSE IF rep[2] THEN 0
              ELSE IF rep[3] THEN V_ONE
              ELSE IF rep[1] THEN (IF SideToMoveIsWhite(position) THEN 0 ELSE V_ONE)
              ELSE value
    IN  IF Len(GenerateMoves(position)) = 0
        THEN (IF LastMoveIsPawnDrop(position) THEN V_ONE ELSE 0)
        ELSE v1

\* The value written for the node if a mate by a pawn drop counted as any mate.
EvaluatedValueNoDrop(position, is_terminal, value) ==
    LET rep == IsRepetition(position)
        v1 == IF ~is_terminal THEN value
              ELSE IF rep[2] THEN 0
              ELSE IF rep[3] THEN V_ONE
              ELSE IF rep[1] THEN (IF SideToMoveIsWhite(position) THEN 0 ELSE V_ONE)
              ELSE IF Ply(position) = MAX_PLY THEN V_ONE \div 2
              ELSE value
    IN  IF Len(GenerateMoves(position)) = 0 THEN 0 ELSE v1

\* mcts.rs:357-380: the value written for the node.
EvaluatedValue(position, is_terminal, value) ==
    LET rep == IsRepetition(position)
        v1 == IF ~is_terminal THEN value
              ELSE IF rep[2] THEN 0
              ELSE IF rep[3] THEN V_ONE
              ELSE IF rep[1] THEN (IF SideToMoveIsWhite(position) THEN 0 ELSE V_ONE)
              ELSE IF Ply(position) = MAX_PLY THEN V_ONE \div 2
              ELSE value
    IN  IF Len(GenerateMoves(position)) = 0
        THEN (IF LastMoveIsPawnDrop(position) THEN V_ONE ELSE 0)
        ELSE v1

\* The probe taking the slot under the cursor without the test of is_used.
ProbeFromNoTest(tree, index, steps) == IF index = 0 THEN 1 ELSE index

\* mcts.rs:387-404: the slot the probe stops at, started at `index`; 0 when
\* every slot it can visit is in use, so that the loop does not end.
RECURSIVE ProbeFrom(_, _, _)
ProbeFrom(tree, index, steps) ==
    LET i == IF index = 0 THEN 1 ELSE index
    IN  IF ~tree[i].is_used THEN i
        ELSE IF steps >= ArenaSize THEN 0
        ELSE ProbeFrom(tree, (i + 1) % ArenaSize, steps + 1)

\* The allocation of the children without the count of line 399.
RECURSIVE AllocateChildrenNoCount(_, _, _, _, _)
AllocateChildrenNoCount(st, node, moves, all_moves, policy) ==
    IF Len(moves) = 0 THEN [st |-> st, spinning |-> FALSE]
    ELSE LET index == ProbeFrom(st.tree, st.node_index, 0)
             m == Head(moves)
         IN  IF index = 0 THEN [st |-> st, spinning |-> TRUE]
             ELSE AllocateChildrenNoCount(
                    [st EXCEPT !.tree = [@ EXCEPT
                                   ![index] = NodeNew(node, m, Softmax(all_moves, policy, m), TRUE),
                                   ![node].children = Append(@, index)],
                               !.node_index = (index + 1) % ArenaSize],
                    node, Tail(moves), all_moves, policy)

\* mcts.rs:384-405: one child per legal move.
RECURSIVE AllocateChildren(_, _, _, _, _)
AllocateChildren(st, node, moves, all_moves, policy) ==
    IF Len(moves) = 0 THEN [st |-> st, spinning |-> FALSE]
    ELSE LET index == ProbeFrom(st.tree, st.node_index, 0)
             m == Head(moves)
         IN  IF index = 0 THEN [st |-> st, spinning |-> TRUE]
             ELSE AllocateChildren(
                    [st EXCEPT !.tree = [@ EXCEPT
                                   ![index] = NodeNew(node, m, Softmax(all_moves, policy, m), TRUE),
                                   ![node].children = Append(@, index)],
                               !.node_index = (index + 1) % ArenaSize,
                               !.node_used_count = @ + 1],
                    node, Tail(moves), all_moves, policy)

\* MCTS::evaluate, mcts.rs:324-409.  `spinning` tells that the call is left in
\* the probe loop of line 388.
EvaluateOp(st, node, position, policy, value) ==
    IF Len(st.tree[node].children) > 0 \/ st.tree[node].is_terminal
    THEN [st |-> st, spinning |-> FALSE]
    ELSE LET moves == GenerateMoves(position)
             terminal == IsTerminalPosition(position)
             s1 == [st EXCEPT !.tree = [@ EXCEPT ![node].is_terminal = terminal]]
             v == EvaluatedValue(position, terminal, value)
             r == IF terminal THEN [st |-> s1, spinning |-> FALSE]
                  ELSE AllocateChildren(s1, node, moves, moves, policy)
         IN  IF r.spinning THEN r
             ELSE [st |-> [r.st EXCEPT !.tree = [@ EXCEPT ![node].v = v]], spinning |-> FALSE]

\* virtual_loss -= 1 on a u32 holding 0: a build with overflow checks panics,
\* one without wraps to 2^32 - 1, kept here as its residue U32_WRAPPED.
U32_WRAPPED == -1

\* The distance between neighbouring f32 values at x >= 0: an f32 has a
\* significand of 24 bits, so below 1.0 every multiple of 2^-24 is an f32,
\* from 1.0 every second one, from 2.0 every fourth, and so on.
RECURSIVE F32Ulp(_, _)
F32Ulp(x, step) == IF x < V_ONE * step THEN step ELSE F32Ulp(x, 2 * step)

\* The f32 nearest to x >= 0, a tie going to the even significand.
F32Round(x) ==
    LET step == F32Ulp(x, 1)
        below == (x \div step) * step
        rest == x - below
    IN  IF 2 * rest < step THEN below
        ELSE IF 2 * rest > step THEN below + step
        ELSE IF (below \div step) % 2 = 0 THEN below ELSE below + step

\* a + b and a - b in f32
F32Add(a, b) == F32Round(a + b)

F32Sub(a, b) == F32Round(a - b)

RECURSIVE BackpropagateLoop(_, _, _, _, _)
BackpropagateLoop(tree, node, flip, value, overflow_checks) ==
    IF node = 0 THEN [tree |-> tree, underflow |-> FALSE]
    ELSE LET t1 == [tree EXCEPT ![node].w = F32Add(@, IF ~flip THEN value
                                                       ELSE F32Sub(V_ONE, value)),
                                ![node].n = @ + 1]
         IN  IF t1[node].virtual_loss = 0
             THEN IF overflow_checks THEN [tree |-> t1, underflow |-> TRUE]
                  ELSE [tree |-> BackpropagateLoop(
                                    [t1 EXCEPT ![node].virtual_loss = U32_WRAPPED],
                                    t1[node].parent, ~flip, value, overflow_checks).tree,
                        underflow |-> TRUE]
             ELSE BackpropagateLoop([t1 EXCEPT ![node].virtual_loss = @ - 1],
                                    t1[node].parent, ~flip, value, overflow_checks)

\* backpropagate updating the leaf alone.
BackpropagateLeafOnly(tree, leaf_node, overflow_checks) ==
    [tree |-> [tree EXCEPT ![leaf_node].w = F32Add(@, tree[leaf_node].v),
                           ![leaf_node].n = @ + 1,
                           ![leaf_node].virtual_loss = @ - 1],
     underflow |-> FALSE]

\* backpropagate passing up the leaf's w in place of its v.
BackpropagateLeafW(tree, leaf_node, overflow_checks) ==
    BackpropagateLoop(tree, leaf_node, FALSE, tree[leaf_node].w, overflow_checks)

\* MCTS::backpropagate, mcts.rs:442-454
BackpropagateOp(tree, leaf_node, overflow_checks) ==
    BackpropagateLoop(tree, leaf_node, FALSE, tree[leaf_node].v, overflow_checks)

\* The decrements of one child's n without the PUCT test of lines 555-560.
RECURSIVE PruneLoopNoTest(_, _, _, _, _, _)
PruneLoopNoTest(tree, node, child, remove, n_forced, n_max_puct) ==
    IF remove >= n_forced \/ tree[child].n = 0 THEN tree
    ELSE PruneLoopNoTest([tree EXCEPT ![child].n = @ - 1], node, child, remove + 1,
                         n_forced, n_max_puct)

\* mcts.rs:549-562: the decrements of one child's n.
RECURSIVE PruneLoop(_, _, _, _, _, _)
PruneLoop(tree, node, child, remove, n_forced, n_max_puct) ==
    IF remove >= n_forced \/ tree[child].n = 0 THEN tree
    ELSE LET t1 == [tree EXCEPT ![child].n = @ - 1]
             puct == GetPuct(t1[child], tree[node].n - remove, FALSE)
         IN  IF puct >= n_max_puct THEN tree
             ELSE PruneLoop(t1, node, child, remove + 1, n_forced, n_max_puct)

RECURSIVE PruneChildren(_, _, _, _, _)
PruneChildren(tree, node, children, n_max_child, n_max_puct) ==
    IF Len(children) = 0 THEN tree
    ELSE LET child == Head(children)
             t1 == IF child = n_max_child THEN tree
                   ELSE PruneLoop(tree, node, child, 1,
                                  NForcedFloor(tree[child], tree[node].n), n_max_puct)
         IN  PruneChildren(t1, node, Tail(children), n_max_child, n_max_puct)

\* mcts.rs:534-564
TargetPruning(tree, node) ==
    LET n_max_child == SelectNMaxChild(tree, node)
    IN  PruneChildren(tree, node, tree[node].children, n_max_child,
                      GetPuct(tree[n_max_child], tree[node].n, FALSE))

RECURSIVE Distribution(_, _, _)
Distribution(tree, children, remove_zeros) ==
    IF Len(children) = 0 THEN <<>>
    ELSE IF remove_zeros /\ tree[Head(children)].n = 0
         THEN Distribution(tree, Tail(children), remove_zeros)
    ELSE <<<<tree[Head(children)].m, tree[Head(children)].n>>>>
         \o Distribution(tree, Tail(children), remove_zeros)

RECURSIVE SumVisits(_)
SumVisits(dist) == IF Len(dist) = 0 THEN 0 ELSE Head(dist)[2] + SumVisits(Tail(dist))

\* MCTS::dump, mcts.rs:526-584: the tree it leaves and the triple it returns.
DumpOp(tree, node, target_pruning, remove_zeros) ==
    LET t1 == IF target_pruning THEN TargetPruning(tree, node) ELSE tree
        q == IF t1[node].n = 0 THEN 0 ELSE ScaleToPuct(t1[node].w) \div t1[node].n
        dist == Distribution(t1, t1[node].children, remove_zeros)
    IN  [tree |-> t1, out |-> <<SumVisits(dist), q, dist>>]

(***************************************************************************)
(* The search driven by one caller.  The driver keeps, for each playout in *)
(* flight, the leaf select_leaf returned and the position it reached, and  *)
(* hands both to evaluate and the leaf to backpropagate.                   *)
(***************************************************************************)
Playout(leaf, position, evaluated) ==
    [leaf |-> leaf, position |-> position, evaluated |-> evaluated]

Pending == BagToSet(inflight)

IsSuccessor(position, before) ==
    /\ Len(position) = Len(before) + 1
    /\ SubSeq(position, 1, Len(before)) = before

\* set_root(position, reuse), called between searches, when every playout
\* selected has been backpropagated: the first root is any position, a later
\* one follows the previous root's by one move or starts a new game.
SetRoot(position, reuse) ==
    /\ UNCHANGED <<resVars, callerVars>>
    /\ mpc = "ready"
    /\ inflight = EmptyBag
    /\ root = 0 \/ Ply(position) = 0 \/ IsSuccessor(position, root_pos)
    /\ LET st == SetRootOp(Engine, position, reuse)
       IN  /\ SetEngine(st)
           /\ root' = st.prev_root
    /\ root_pos' = position
    /\ completed' = [i \in Slots |-> 0]
    /\ UNCHANGED <<inflight, mpc, probe>>

\* select_leaf(root, position, forced_playouts) on a copy of the root position.
SelectLeaf(forced_playouts) ==
    /\ UNCHANGED <<resVars, callerVars>>
    /\ mpc = "ready" /\ root # 0
    /\ BagCardinality(inflight) < MaxInflight
    /\ game_tree[root].n + game_tree[root].virtual_loss < MaxPlayouts
    /\ LET r == SelectLeafOp(game_tree, root, root_pos, forced_playouts)
       IN  /\ game_tree' = r.tree
           /\ inflight' = inflight (+) SetToBag({Playout(r.node, r.position, FALSE)})
    /\ UNCHANGED <<node_index, node_used_count, prev_root, root, root_pos, completed, mpc, probe>>

\* evaluate(leaf, position, np_policy, value) for a playout in flight.
Evaluate(e, policy, value) ==
    /\ UNCHANGED <<resVars, callerVars>>
    /\ mpc = "ready"
    /\ e \in Pending /\ ~e.evaluated
    /\ LET r == EvaluateOp(Engine, e.leaf, e.position, policy, value)
       IN  /\ SetEngine(r.st)
           /\ mpc' = IF r.spinning THEN "probing" ELSE "ready"
           /\ probe' = IF r.spinning
                       THEN [node |-> e.leaf, index |-> r.st.node_index, steps |-> 0]
                       ELSE probe
    /\ inflight' = (inflight (-) SetToBag({e})) (+) SetToBag({Playout(e.leaf, e.position, TRUE)})
    /\ UNCHANGED <<root, root_pos, completed>>

\* One more turn of the loop of mcts.rs:388-404 in a call to evaluate that found
\* no free slot: the slot looked at is in use, the index moves on.  `steps`
\* counts the turns of the loop and stops counting past ArenaSize + 1.
ProbeSpin ==
    /\ UNCHANGED <<resVars, callerVars>>
    /\ mpc = "probing"
    /\ LET index == IF probe.index = 0 THEN 1 ELSE probe.index
       IN  /\ game_tree[index].is_used
           /\ probe' = [probe EXCEPT !.index = (index + 1) % ArenaSize,
                                     !.steps = IF @ > ArenaSize THEN @ ELSE @ + 1]
    /\ UNCHANGED <<mctsVars, root, root_pos, inflight, completed, mpc>>

\* backpropagate(leaf) for a playout that was evaluated.
Backpropagate(e, overflow_checks) ==
    /\ UNCHANGED <<resVars, callerVars>>
    /\ mpc = "ready"
    /\ e \in Pending /\ e.evaluated
    /\ LET r == BackpropagateOp(game_tree, e.leaf, overflow_checks)
       IN  /\ game_tree' = r.tree
           /\ mpc' = IF ~r.underflow THEN "ready"
                     ELSE IF overflow_checks THEN "panicked" ELSE "wrapped"
    /\ inflight' = inflight (-) SetToBag({e})
    /\ completed' = [completed EXCEPT ![e.leaf] = @ + 1]
    /\ UNCHANGED <<node_index, node_used_count, prev_root, root, root_pos, probe>>

\* dump(root, target_pruning, remove_zeros) once the playouts are done.
Dump(target_pruning, remove_zeros) ==
    /\ UNCHANGED <<resVars, callerVars>>
    /\ mpc = "ready" /\ root # 0 /\ inflight = EmptyBag
    /\ LET r == DumpOp(game_tree, root, target_pruning, remove_zeros)
       IN  game_tree' = r.tree
    /\ UNCHANGED <<node_index, node_used_count, prev_root, root, root_pos, inflight,
                   completed, mpc, probe>>

NoReservoir == New(1) /\ ThreadsIdle

\* A new engine given its first root.
InitPlayouts ==
    /\ NoReservoir
    /\ \E position \in Positions :
          LET st == SetRootOp([tree |-> [i \in Slots |-> NodeNew(0, NULL_MOVE, 0, FALSE)],
                               node_index |-> 0, node_used_count |-> 0, prev_root |-> 0],
                              position, FALSE)
          IN  /\ game_tree = st.tree
              /\ node_index = st.node_index
              /\ node_used_count = st.node_used_count
              /\ prev_root = st.prev_root
              /\ root = st.prev_root
              /\ root_pos = position
    /\ inflight = EmptyBag
    /\ completed = [i \in Slots |-> 0]
    /\ mpc = "ready"
    /\ probe = NoProbe

NextPlayouts ==
    \/ \E forced_playouts \in BOOLEAN : SelectLeaf(forced_playouts)
    \/ \E e \in Pending, policy \in PolicyVecs, value \in Values : Evaluate(e, policy, value)
    \/ \E e \in Pending, overflow_checks \in BOOLEAN : Backpropagate(e, overflow_checks)
    \/ ProbeSpin

SpecPlayouts == InitPlayouts /\ [][NextPlayouts]_vars

InitTree ==
    /\ NoReservoir
    /\ MctsNew
    /\ DriverNew

NextTree ==
    \/ \E position \in Positions, reuse \in BOOLEAN : SetRoot(position, reuse)
    \/ \E forced_playouts \in BOOLEAN : SelectLeaf(forced_playouts)
    \/ \E e \in Pending, policy \in PolicyVecs, value \in Values : Evaluate(e, policy, value)
    \/ \E e \in Pending, overflow_checks \in BOOLEAN : Backpropagate(e, overflow_checks)
    \/ \E target_pruning \in BOOLEAN, remove_zeros \in BOOLEAN :
          Dump(target_pruning, remove_zeros)
    \/ ProbeSpin

SpecTree == InitTree /\ [][NextTree]_vars

(***************************************************************************)
(* Properties of the search tree.                                          *)
(***************************************************************************)
Live(tree) == {i \in Slots : tree[i].is_used}

Occurrences(s, x) == Cardinality({k \in 1..Len(s) : s[k] = x})

RECURSIVE SumN(_, _)
SumN(tree, children) ==
    IF Len(children) = 0 THEN 0 ELSE tree[Head(children)].n + SumN(tree, Tail(children))

RECURSIVE SumOver(_, _)
SumOver(f, S) ==
    IF S = {} THEN 0 ELSE LET x == CHOOSE y \in S : TRUE IN f[x] + SumOver(f, S \ {x})

\* The playouts backpropagated since the last set_root.
Completed == SumOver(completed, Slots)

Quiescent == mpc = "ready" /\ inflight = EmptyBag

\* The slots of the subtree under `node`, `node` included.
RECURSIVE Subtree(_, _)
Subtree(tree, node) ==
    {node} \cup UNION {Subtree(tree, tree[node].children[k]) : k \in 1..Len(tree[node].children)}

\* C5: from a tree whose virtual_loss are all 0, however select_leaf calls and
\* their backpropagate calls interleave (several selected before any is
\* backpropagated, the same leaf returned twice), no virtual_loss goes below 0
\* (no decrement of a u32 holding 0), and once every playout selected has been
\* backpropagated every live node has virtual_loss = 0.
C5_VirtualLossBalance ==
    /\ mpc \notin {"panicked", "wrapped"}
    /\ \A i \in Slots : game_tree[i].virtual_loss >= 0
    /\ inflight = EmptyBag => \A i \in Live(game_tree) : game_tree[i].virtual_loss = 0

\* Two playouts returned the root as their leaf while it was unexpanded, and
\* both were backpropagated.
C5_Witness ==
    /\ Quiescent
    /\ root # 0 /\ Expanded(game_tree[root])
    /\ completed[root] >= 2
    /\ \A i \in Live(game_tree) : game_tree[i].virtual_loss = 0

\* C6 (as claimed): from a fresh root, once every playout selected has been
\* evaluated and backpropagated, batched or not, root.n is the number of
\* completed playouts and every node that has children has
\* n = 1 + the sum of its children's n.
C6_VisitConsistency ==
    Quiescent =>
        /\ game_tree[root].n = Completed
        /\ \A i \in Live(game_tree) :
              Expanded(game_tree[i]) =>
                  game_tree[i].n = 1 + SumN(game_tree, game_tree[i].children)

\* C6 (amended): from a fresh root, root.n is the number of completed playouts
\* and every live node has n = the number of completed playouts that returned
\* it as their leaf + the sum of its children's n; once every playout selected
\* has been backpropagated, that number is at least 1 for a node with children
\* (and is 1, giving n = 1 + sum, when no leaf was returned to two playouts).
C6_VisitsPerLeaf ==
    /\ game_tree[root].n = Completed
    /\ \A i \in Live(game_tree) :
          game_tree[i].n = completed[i] + SumN(game_tree, game_tree[i].children)
    /\ Quiescent =>
          \A i \in Live(game_tree) : Expanded(game_tree[i]) => completed[i] >= 1

\* A leaf was returned to two playouts, and a later playout went below it.
C6_Witness ==
    /\ Quiescent
    /\ \E i \in Live(game_tree) :
          /\ Expanded(game_tree[i]) /\ completed[i] >= 2
          /\ SumN(game_tree, game_tree[i].children) >= 1

\* C7: in every state reached through set_root, select_leaf, evaluate,
\* backpropagate and dump, every live node other than the current root has a
\* live parent whose children list holds the node's index exactly once, and
\* every index in a live node's children list is a live node whose parent is
\* that node.
C7_ArenaIntegrity ==
    \A i \in Live(game_tree) :
        /\ i # prev_root =>
              /\ game_tree[i].parent \in Live(game_tree)
              /\ Occurrences(game_tree[game_tree[i].parent].children, i) = 1
        /\ \A k \in 1..Len(game_tree[i].children) :
              /\ game_tree[i].children[k] \in Live(game_tree)
              /\ game_tree[game_tree[i].children[k]].parent = i

\* A reused root (not slot 1) that has been expanded further.
C7_Witness ==
    /\ prev_root > 1
    /\ Expanded(game_tree[prev_root])
    /\ Completed >= 1
    /\ Cardinality(Live(game_tree)) >= 3

\* A call set_root(position, true) that finds the child to go on from.
Reusing(position) == SetRoot(position, TRUE) /\ NextRoot(Engine, position, TRUE) # 0

\* C8: a set_root(position, true) that finds a child of the previous root whose
\* move is the last move played returns that child's index, sets that child's
\* parent to 0 and no other parent of its subtree, and leaves n, w, v, p, m,
\* children and is_terminal of every node of the child's subtree as they were.
C8_RootReusePreservation ==
    [][\A position \in Positions :
          Reusing(position) =>
              LET child == root'
              IN  /\ Occurrences(game_tree[prev_root].children, child) = 1
                  /\ game_tree[child].m = position[Ply(position)]
                  /\ prev_root' = child
                  /\ game_tree'[child].parent = 0
                  /\ \A i \in Subtree(game_tree, child) :
                        /\ game_tree'[i].n = game_tree[i].n
                        /\ game_tree'[i].w = game_tree[i].w
                        /\ game_tree'[i].v = game_tree[i].v
                        /\ game_tree'[i].p = game_tree[i].p
                        /\ game_tree'[i].m = game_tree[i].m
                        /\ game_tree'[i].children = game_tree[i].children
                        /\ game_tree'[i].is_terminal = game_tree[i].is_terminal
                        /\ game_tree'[i].is_used
                        /\ i # child => game_tree'[i].parent = game_tree[i].parent]_vars

\* Right after a reuse: the root is a former child with visits and children.
C8_Witness ==
    /\ prev_root > 1 /\ root = prev_root
    /\ Completed = 0 /\ Quiescent
    /\ game_tree[prev_root].parent = 0
    /\ game_tree[prev_root].n >= 2
    /\ Expanded(game_tree[prev_root])

\* C9: after a reusing set_root that keeps child C of the old root R, the live
\* slots are exactly those of C's subtree (R, C's siblings and their
\* descendants are free), and node_used_count went down by the number of slots
\* freed.
C9_SubtreeEviction ==
    [][\A position \in Positions :
          Reusing(position) =>
              LET child == NextRoot(Engine, position, TRUE)
                  freed == Live(game_tree) \ Live(game_tree')
              IN  /\ Live(game_tree') = Subtree(game_tree, child)
                  /\ freed = Subtree(game_tree, prev_root) \ Subtree(game_tree, child)
                  /\ prev_root \in freed
                  /\ node_used_count - node_used_count' = Cardinality(freed)]_vars

\* Right after a reuse that freed the first root and kept three nodes or more.
C9_Witness ==
    /\ prev_root > 1 /\ root = prev_root
    /\ Completed = 0 /\ Quiescent
    /\ ~game_tree[1].is_used
    /\ Cardinality(Live(game_tree)) >= 3

\* C10 (as claimed): the free-slot probe of evaluate stops after at most one
\* full pass over the arena: a call that finds no free slot takes no more than
\* ArenaSize turns of its loop.
C10_BoundedProbe == mpc = "probing" => probe.steps <= ArenaSize

\* C11 (as claimed): in every state reached through set_root, select_leaf,
\* evaluate with a value in [0, 1], backpropagate and dump, with or without
\* target pruning, every live node has 0 <= w <= n (w counts halves).
C11_ValueBound ==
    \A i \in Live(game_tree) :
        0 <= game_tree[i].w /\ game_tree[i].w <= V_ONE * game_tree[i].n

(***************************************************************************)
(* The search with set_root also called while playouts selected earlier    *)
(* have been evaluated and await their backpropagate.                      *)
(***************************************************************************)
SetRootPending(position, reuse) ==
    /\ UNCHANGED <<resVars, callerVars>>
    /\ mpc = "ready"
    /\ inflight # EmptyBag
    /\ \A e \in Pending : e.evaluated
    /\ Ply(position) = 0 \/ IsSuccessor(position, root_pos)
    /\ LET st == SetRootOp(Engine, position, reuse)
       IN  /\ SetEngine(st)
           /\ root' = st.prev_root
    /\ root_pos' = position
    /\ completed' = [i \in Slots |-> 0]
    /\ UNCHANGED <<inflight, mpc, probe>>

NextStale ==
    \/ \E position \in Positions, reuse \in BOOLEAN : SetRoot(position, reuse)
    \/ \E position \in Positions, reuse \in BOOLEAN : SetRootPending(position, reuse)
    \/ \E forced_playouts \in BOOLEAN : SelectLeaf(forced_playouts)
    \/ \E e \in Pending, policy \in PolicyVecs, value \in Values : Evaluate(e, policy, value)
    \/ \E e \in Pending, overflow_checks \in BOOLEAN : Backpropagate(e, overflow_checks)
    \/ ProbeSpin

SpecStale == InitTree /\ [][NextStale]_vars

ClearedNode == NodeNew(0, NULL_MOVE, 0, FALSE)

\* C12 (as claimed): in every reachable state, also when set_root was called
\* while playouts selected earlier await their backpropagate, every slot with
\* is_used = false has n = 0, w = 0, v = 0, p = 0, the null move, parent = 0,
\* no children, is_terminal = false and virtual_loss = 0.
C12_FreeSlotsCleared ==
    \A i \in Slots : ~game_tree[i].is_used => game_tree[i] = ClearedNode

(***************************************************************************)
(* Properties of evaluate, stated of its steps.                            *)
(***************************************************************************)
\* A call of evaluate on a node that is neither expanded nor terminal.
Evaluates(e, policy, value) ==
    /\ Evaluate(e, policy, value)
    /\ ~Expanded(game_tree[e.leaf])
    /\ ~game_tree[e.leaf].is_terminal

AtPlyCap(position) == Ply(position) = MAX_PLY /\ ~IsRepetition(position)[1]

RECURSIVE NodePosition(_, _)
NodePosition(tree, i) ==
    IF i = root \/ tree[i].parent = 0 THEN root_pos
    ELSE Append(NodePosition(tree, tree[i].parent), tree[i].m)

RECURSIVE TotalPlys(_)
TotalPlys(lts) == IF Len(lts) = 0 THEN 0 ELSE Len(Head(lts)) + TotalPlys(Tail(lts))

\* C15 (as claimed): when the stored records hold at least one learning-target
\* ply in total, whether or not max_size records are stored, sample(b)
\* completes and returns three arrays of lengths b * 6650, b * 1725 and b.
C15_SampleShape ==
    (result.op = "sample" /\ TotalPlys(learning_targets) >= 1) =>
        /\ result.ok
        /\ result.shape = <<result.batch * 6650, result.batch * 1725, result.batch>>

\* C18: when an open or a write of push's log append fails, the call fails
\* and the record of the line pushed is nevertheless the newest entry of
\* records and its learning targets the newest entry of learning_targets.
C18_LogWriteFailure ==
    (result.op = "push" /\ result.io \in LogFailures) =>
        /\ ~result.ok
        /\ Len(records) >= 1
        /\ records[Len(records)] = FromJson(result.lines[1])
        /\ Len(learning_targets) >= 1
        /\ learning_targets[Len(learning_targets)] = FromJson(result.lines[1]).learning_target_plys

\* A push whose log write failed on a reservoir that was full.
C18_Witness ==
    /\ result.op = "push" /\ result.io = "write_failed"
    /\ max_size >= 1 /\ Len(pushed) > max_size

\* C19 (as claimed): every push that returns appends its line, whole and
\* followed by one newline, to the end of the log; load and sample leave the
\* log as it is, and no call, evicting or not, removes anything from it.
C19_LogContent ==
    [][calls' = calls + 1 =>
          /\ (result'.op = "push" /\ result'.ok) =>
                log' = Append(log, LogEntry(result'.lines[1], TRUE, TRUE))
          /\ result'.op \in {"load", "sample"} => log' = log
          /\ Len(log') >= Len(log) /\ SubSeq(log', 1, Len(log)) = log]_vars

(***************************************************************************)
(* dump applied to searched trees.  The pruning of mcts.rs:534-564 reads   *)
(* the root's n and, of each child of the root, n, w, p, v, is_terminal    *)
(* and virtual_loss, and nothing else of the tree.  The arena of SpecTree  *)
(* has no room for a root with two children that were both visited and     *)
(* expanded, so the trees are drawn here: the root at the start position,  *)
(* evaluated, and each child with its count of visits, its accumulated     *)
(* value between 0 and that count, and, if it ends the game, its value.    *)
(* The nodes below the root's children are left out.                       *)
(***************************************************************************)
ChildStats ==
    {[n |-> n, w |-> h * (V_ONE \div 2), v |-> v, is_terminal |-> t] :
        n \in 0..MaxVisits, h \in 0..(2 * MaxVisits), v \in Values, t \in BOOLEAN}

\* A child's fields after n visits: w within 0..n, and w = n * v for a child
\* that ends the game, each of its playouts adding v (mcts.rs:448).
SearchedStats ==
    {c \in ChildStats : /\ c.w <= c.n * V_ONE
                        /\ c.is_terminal => c.w = c.n * c.v
                        /\ ~c.is_terminal => c.v = 0}

WithStats(node, c) ==
    [node EXCEPT !.n = c.n, !.w = c.w, !.v = c.v, !.is_terminal = c.is_terminal]

InitPrune ==
    /\ NoReservoir
    /\ \E policy \in PolicyVecs, a \in SearchedStats, b \in SearchedStats :
          LET s0 == SetRootOp([tree |-> [i \in Slots |-> NodeNew(0, NULL_MOVE, 0, FALSE)],
                               node_index |-> 0, node_used_count |-> 0, prev_root |-> 0],
                              <<>>, FALSE)
              s1 == EvaluateOp(s0, s0.prev_root, <<>>, policy, 0).st
              r == s1.prev_root
              ca == s1.tree[r].children[1]
              cb == s1.tree[r].children[2]
          IN  /\ game_tree = [s1.tree EXCEPT
                                 ![ca] = WithStats(@, a),
                                 ![cb] = WithStats(@, b),
                                 ![r].n = 1 + a.n + b.n,
                                 ![r].w = (a.n * V_ONE - a.w) + (b.n * V_ONE - b.w)]
              /\ node_index = s1.node_index
              /\ node_used_count = s1.node_used_count
              /\ prev_root = r
              /\ root = r
    /\ root_pos = <<>>
    /\ inflight = EmptyBag
    /\ completed = [i \in Slots |-> 0]
    /\ mpc = "ready"
    /\ probe = NoProbe

NextPrune ==
    \E target_pruning \in BOOLEAN, remove_zeros \in BOOLEAN : Dump(target_pruning, remove_zeros)

SpecPrune == InitPrune /\ [][NextPrune]_vars

(***************************************************************************)
(* Properties of dump, stated of the call dump(root, ...) in every state   *)
(* in which the action Dump can make it.                                   *)
(***************************************************************************)
DumpReady == mpc = "ready" /\ root # 0 /\ inflight = EmptyBag

\* The tree a dump(root, true, _) made now leaves.
Pruned == DumpOp(game_tree, root, TRUE, FALSE).tree

\* The best child's PUCT before pruning, as dump computes it (mcts.rs:538-539).
BestPuct ==
    GetPuct(game_tree[SelectNMaxChild(game_tree, root)], game_tree[root].n, FALSE)

\* C16 (as claimed): after dump(root, true, _), every child of the root other
\* than the max-visit child has, at its visit count after pruning, a PUCT
\* without the forced-playouts flag that does not exceed the max-visit child's
\* PUCT before pruning; also the children no visit was removed from.
C16_TargetPruning ==
    (DumpReady /\ Expanded(game_tree[root])) =>
        \A k \in 1..Len(game_tree[root].children) :
            LET child == game_tree[root].children[k]
            IN  child # SelectNMaxChild(game_tree, root) =>
                    GetPuct(Pruned[child], game_tree[root].n, FALSE) <= BestPuct

\* The visits a dump(root, true, _) made now removes from a child.
Removed(child) == game_tree[child].n - Pruned[child].n

\* C16 (amended): after dump(root, true, _), every child of the root other
\* than the max-visit child from which visits were removed has, at its visit
\* count after pruning and with the root's count lowered by the visits removed
\* from it, a PUCT without the forced-playouts flag below the max-visit
\* child's PUCT before pruning; the max-visit child keeps its visits.
C16_PrunedBelowBest ==
    (DumpReady /\ Expanded(game_tree[root])) =>
        /\ Removed(SelectNMaxChild(game_tree, root)) = 0
        /\ \A k \in 1..Len(game_tree[root].children) :
              LET child == game_tree[root].children[k]
              IN  /\ Removed(child) >= 0
                  /\ Removed(child) >= 1 =>
                        GetPuct(Pruned[child], game_tree[root].n - Removed(child), FALSE)
                            < BestPuct

\* A dump that removes a visit from a child whose max-visit sibling is not
\* terminal.
C16_Witness ==
    /\ DumpReady /\ Expanded(game_tree[root])
    /\ ~game_tree[SelectNMaxChild(game_tree, root)].is_terminal
    /\ \E k \in 1..Len(game_tree[root].children) : Removed(game_tree[root].children[k]) >= 1


(***************************************************************************)
(* A search that goes on with forced playouts: every select_leaf is given  *)
(* forced_playouts = true, and the caller keeps making the next call of     *)
(* its loop as long as one can be made.                                     *)
(***************************************************************************)
NextForced ==
    \/ SelectLeaf(TRUE)
    \/ \E e \in Pending, policy \in PolicyVecs, value \in Values : Evaluate(e, policy, value)
    \/ \E e \in Pending, overflow_checks \in BOOLEAN : Backpropagate(e, overflow_checks)
    \/ ProbeSpin

SpecForced == InitPlayouts /\ [][NextForced]_vars /\ WF_vars(NextForced)

RootExpanded == root # 0 /\ Expanded(game_tree[root])

\* The k-th child of the root has n >= floor(sqrt(2 * p * root.n)).
MeetsForced(k) ==
    /\ RootExpanded
    /\ k <= Len(game_tree[root].children)
    /\ game_tree[game_tree[root].children[k]].n
          >= NForcedFloor(game_tree[game_tree[root].children[k]], game_tree[root].n)

\* The k-th child of the root is in line for a forced playout: it is not
\* terminal, select_leaf would find it below sqrt(2 * p * parent_n), and no
\* child before it in the children list is terminal with v = 0.
InLine(k) ==
    LET children == game_tree[root].children
        parent_n == game_tree[root].n + game_tree[root].virtual_loss + 1
    IN  /\ RootExpanded
        /\ k <= Len(children)
        /\ ~game_tree[children[k]].is_terminal
        /\ BelowForced(game_tree[children[k]], parent_n)
        /\ \A j \in 1..(k - 1) :
              ~(game_tree[children[j]].is_terminal /\ game_tree[children[j]].v = 0)

\* The playouts have come to an end: the bound on them is reached, or a call
\* to evaluate is left in its probe loop.
PlayoutsEnded ==
    \/ mpc = "probing"
    \/ root # 0 /\ game_tree[root].n + game_tree[root].virtual_loss >= MaxPlayouts

\* C17 (as claimed): with forced_playouts = true in every select_leaf, once
\* the root is expanded every child of it, terminal or not and wherever it
\* stands in the children list, comes to have n >= floor(sqrt(2 * p * root.n)).
\* A search that ends with the child still in line for a forced playout is
\* not held against the claim.
C17_ForcedPlayoutsMonotonicity ==
    \A k \in 1..Cardinality(Moves) : RootExpanded ~> (MeetsForced(k) \/ (PlayoutsEnded /\ InLine(k)))

(***************************************************************************)
(* Playouts whose network values include 2^-24, the least value that does  *)
(* not change 1.0 when added to it in f32.                                 *)
(***************************************************************************)
F32Values == Values \cup {1}

NextOrder ==
    \/ \E forced_playouts \in BOOLEAN : SelectLeaf(forced_playouts)
    \/ \E e \in Pending, policy \in PolicyVecs, value \in F32Values : Evaluate(e, policy, value)
    \/ \E e \in Pending, overflow_checks \in BOOLEAN : Backpropagate(e, overflow_checks)
    \/ ProbeSpin

SpecOrder == InitPlayouts /\ [][NextOrder]_vars

\* Every playout in flight has been evaluated, and there is one.
AllEvaluated == inflight # EmptyBag /\ \A e \in Pending : e.evaluated

\* The orders in which the playouts in flight can be backpropagated.
LeafOrders ==
    {order \in [1..BagCardinality(inflight) -> Pending] :
        \A e \in Pending :
            Cardinality({k \in DOMAIN order : order[k] = e}) = CopiesIn(e, inflight)}

\* The tree after backpropagate(leaf) for each playout of `order` in turn.
RECURSIVE BackpropagateAll(_, _)
BackpropagateAll(tree, order) ==
    IF Len(order) = 0 THEN tree
    ELSE BackpropagateAll(BackpropagateOp(tree, Head(order).leaf, TRUE).tree, Tail(order))

Counts(tree) == [i \in Slots |-> <<tree[i].n, tree[i].virtual_loss>>]

Sums(tree) == [i \in Slots |-> tree[i].w]

\* C20 (as claimed): with every playout in flight evaluated, the n, w and
\* virtual_loss of every node after all their backpropagate calls are the same
\* for every order of the calls.
C20_OrderIndependence ==
    AllEvaluated =>
        \A o1 \in LeafOrders, o2 \in LeafOrders :
            /\ Counts(BackpropagateAll(game_tree, o1)) = Counts(BackpropagateAll(game_tree, o2))
            /\ Sums(BackpropagateAll(game_tree, o1)) = Sums(BackpropagateAll(game_tree, o2))

\* Every w and v in the tree is a multiple of 0.5: no sum of them rounds.
HalvesOnly ==
    \A i \in Slots : /\ game_tree[i].w % (V_ONE \div 2) = 0
                     /\ game_tree[i].v % (V_ONE \div 2) = 0

\* C20 (amended): with every playout in flight evaluated, the n and
\* virtual_loss of every node after all their backpropagate calls are the same
\* for every order of the calls, and so is w when no addition rounds, as when
\* every value is 0, 0.5 or 1.
C20_CountsOrderIndependent ==
    AllEvaluated =>
        \A o1 \in LeafOrders, o2 \in LeafOrders :
            /\ Counts(BackpropagateAll(game_tree, o1)) = Counts(BackpropagateAll(game_tree, o2))
            /\ HalvesOnly =>
                  Sums(BackpropagateAll(game_tree, o1)) = Sums(BackpropagateAll(game_tree, o2))

\* Two playouts in flight with different leaves, both evaluated, under a root
\* that was visited before, and two orders that both add to the root's w.
C20_Witness ==
    /\ AllEvaluated /\ HalvesOnly
    /\ game_tree[root].n >= 1 /\ game_tree[root].w > 0
    /\ \E e1 \in Pending, e2 \in Pending : e1.leaf # e2.leaf /\ game_tree[e2.leaf].v > 0
    /\ Cardinality(LeafOrders) >= 2

(***************************************************************************)
(* Claims about the copies sample works on.                                *)
(***************************************************************************)
\* The two deques describe the same reservoir state: entry for entry, the
\* learning targets are those of the record.
SameState(recs, lts) ==
    /\ Len(recs) = Len(lts)
    /\ \A k \in 1..Len(recs) : lts[k] = recs[k].learning_target_plys

\* C21 (as claimed): when a sample has taken both its copies and has not yet
\* released the reader slot, the copy of records and the copy of
\* learning_targets describe the same reservoir state: no push took effect
\* between the two copies or while one was taken.
C21_ConsistentSnapshot ==
    \A t \in Threads :
        pc[t] = "sample_release" => SameState(snap_records[t], snap_targets[t])

(***************************************************************************)
(* Threads that go on calling sample.  Pushes are counted by `calls`; a     *)
(* sample may be called again and again.  Every thread inside a call is    *)
(* scheduled again and again.                                              *)
(***************************************************************************)
\* A thread calls sample once more.  reservoir.rs:83-85
SampleAgain(t) ==
    /\ UNCHANGED <<mctsVars, driverVars>>
    /\ pc[t] = "idle"
    /\ Goto(t, "sample_wait")
    /\ UNCHANGED <<resVars, write_lock, arg, snap_records, snap_targets, calls, result,
                   pushed, all_ok>>

\* The next statement of the call thread t is in.
ThreadRuns(t) ==
    \/ PushTestWrite(t)
    \/ PushTestRead(t)
    \/ PushClaim(t)
    \/ PushEvict(t)
    \/ PushParse(t)
    \/ PushRecords(t)
    \/ PushTargets(t)
    \/ PushLog(t)
    \/ PushRelease(t)
    \/ SampleTestWrite(t)
    \/ SampleAdmit(t)
    \/ SampleCopyRecords(t)
    \/ SampleCopyTargets(t)
    \/ SampleRelease(t)

NextProgress ==
    \E t \in Threads :
        \/ \E line \in JsonLines : PushCall(t, line)
        \/ SampleAgain(t)
        \/ ThreadRuns(t)

SpecProgress ==
    InitRW /\ [][NextProgress]_vars /\ \A t \in Threads : WF_vars(ThreadRuns(t))

InPush(t) == pc[t] \in {"push_wait", "push_test_read", "push_claim"} \cup WriterSection

\* C22 (as claimed): with every thread scheduled fairly and every sample
\* leaving its reader section, a thread that has called push comes to claim
\* the writer slot and to return (a call that fails has returned too).
C22_PushProgress == \A t \in Threads : InPush(t) ~> (pc[t] \in {"idle", "failed"})

(***************************************************************************)
(* select_leaf, as seen from the state before and after the call.          *)
(***************************************************************************)
\* The nodes from root_node down to node, along the parent fields.
RECURSIVE PathTo(_, _, _)
PathTo(tree, node, root_node) ==
    IF node = root_node \/ node = 0 THEN <<node>>
    ELSE Append(PathTo(tree, tree[node].parent, root_node), node)

\* position after the moves of the nodes path[k..] have been played.
RECURSIVE PlayPath(_, _, _, _)
PlayPath(tree, path, k, position) ==
    IF k > Len(path) THEN position
    ELSE PlayPath(tree, path, k + 1, DoMove(position, tree[path[k]].m))

InSeq(s) == {s[k] : k \in 1..Len(s)}

\* A step that puts one more playout in flight is a call of select_leaf.
SelectStep == BagCardinality(inflight') = BagCardinality(inflight) + 1

\* children[j] is the first of children with the greatest score.
FirstMaximum(tree, children, j, parent_n, forced_playouts) ==
    LET score(c) == GetPuct(tree[c], parent_n, forced_playouts)
    IN  /\ \A i \in 1..Len(children) : score(children[i]) <= score(children[j])
        /\ \A i \in 1..(j - 1) : score(children[i]) < score(children[j])

\* C23 (as claimed): select_leaf returns a node that is terminal or has no
\* children; it adds exactly 1 to virtual_loss on exactly the nodes of the
\* path from the root to the returned node, changes no other field and no
\* other node, applies to the position exactly the moves of that path in
\* order, and at each node of the path takes the first child, in children
\* order, with the maximum PUCT.
C23_SelectLeafFrame ==
    [][SelectStep =>
        \E e \in BagToSet(inflight') :
            LET path == PathTo(game_tree, e.leaf, root)
            IN  /\ CopiesIn(e, inflight') = CopiesIn(e, inflight) + 1
                /\ ~e.evaluated
                /\ path[1] = root
                /\ game_tree[e.leaf].is_terminal \/ ~Expanded(game_tree[e.leaf])
                /\ \A i \in Slots :
                       game_tree'[i] = IF i \in InSeq(path)
                                       THEN [game_tree[i] EXCEPT !.virtual_loss = @ + 1]
                                       ELSE game_tree[i]
                /\ e.position = PlayPath(game_tree, path, 2, root_pos)
                /\ \E forced_playouts \in BOOLEAN :
                       \A k \in 1..(Len(path) - 1) :
                           LET parent == game_tree'[path[k]]
                           IN  /\ ~parent.is_terminal /\ Expanded(parent)
                               /\ \E j \in 1..Len(parent.children) :
                                      /\ parent.children[j] = path[k + 1]
                                      /\ FirstMaximum(game_tree, parent.children, j,
                                                      parent.n + parent.virtual_loss,
                                                      forced_playouts)
                /\ UNCHANGED <<node_index, node_used_count, prev_root, root, root_pos>>
    ]_vars

\* A playout selected two levels below the root is in flight.
C23_Witness ==
    \E e \in Pending :
        /\ ~e.evaluated
        /\ root # 0 /\ e.leaf # root
        /\ game_tree[e.leaf].parent \notin {0, root}
        /\ game_tree[e.leaf].virtual_loss = 1

\* A child whose side to move has won: the move to it loses.
LosingChild(node) == node.is_terminal /\ node.v = V_ONE

\* C24 (as claimed): with or without forced playouts, select_leaf goes to a
\* child that is terminal with v = 1 only from a node all of whose children
\* are terminal with v = 1.
C24_LosingChildAvoided ==
    [][SelectStep =>
        \E e \in BagToSet(inflight') :
            LET path == PathTo(game_tree, e.leaf, root)
            IN  /\ CopiesIn(e, inflight') = CopiesIn(e, inflight) + 1
                /\ \A k \in 1..(Len(path) - 1) :
                       LosingChild(game_tree[path[k + 1]])
                           => \A c \in InSeq(game_tree[path[k]].children) :
                                  LosingChild(game_tree[c])
    ]_vars

(***************************************************************************)
(* select_leaf applied to searched trees: those drawn for dump, a child    *)
(* that ends the game having been visited.                                 *)
(***************************************************************************)
InitSelect ==
    /\ InitPrune
    /\ \A c \in InSeq(game_tree[root].children) :
           game_tree[c].is_terminal => game_tree[c].n >= 1

NextSelect == \E forced_playouts \in BOOLEAN : SelectLeaf(forced_playouts)

SpecSelect == InitSelect /\ [][NextSelect]_vars

\* A playout went to the second child of a root whose first child is terminal
\* with v = 1.
C24_Witness ==
    \E e \in Pending :
        /\ e.leaf = game_tree[root].children[2]
        /\ LosingChild(game_tree[game_tree[root].children[1]])
        /\ ~LosingChild(game_tree[e.leaf])

(***************************************************************************)
(* backpropagate, as seen from the state before and after the call.        *)
(***************************************************************************)
\* node, its parent, and so on up to the node whose parent is 0.
RECURSIVE ParentChain(_, _, _)
ParentChain(tree, node, fuel) ==
    IF node = 0 \/ fuel = 0 THEN <<>>
    ELSE <<node>> \o ParentChain(tree, tree[node].parent, fuel - 1)

\* A step that takes a playout out of flight is a call of backpropagate.
BackpropagateStep == BagCardinality(inflight') = BagCardinality(inflight) - 1

\* C25 (as claimed): backpropagate(leaf), with v the v of the leaf, changes
\* exactly the nodes on the parent chain from the leaf up to the node whose
\* parent is 0: on each it adds v to w if the node is an even number of
\* steps above the leaf and 1 - v if odd (in f32), adds 1 to n and takes 1
\* from virtual_loss; slot 0 and the nodes off the chain are unchanged.
C25_BackpropagateFrame ==
    [][BackpropagateStep =>
        \E e \in Pending :
            LET chain == ParentChain(game_tree, e.leaf, ArenaSize)
                v == game_tree[e.leaf].v
            IN  /\ CopiesIn(e, inflight') = CopiesIn(e, inflight) - 1
                /\ game_tree[chain[Len(chain)]].parent = 0
                /\ \A i \in Slots : \A d \in 1..Len(chain) :
                       chain[d] = i =>
                           /\ game_tree'[i].w = F32Add(game_tree[i].w,
                                                       IF d % 2 = 1 THEN v
                                                       ELSE F32Sub(V_ONE, v))
                           /\ game_tree'[i].n = game_tree[i].n + 1
                           /\ game_tree[i].virtual_loss >= 1
                           /\ game_tree'[i].virtual_loss = game_tree[i].virtual_loss - 1
                           /\ game_tree'[i] = [game_tree[i] EXCEPT
                                                  !.w = game_tree'[i].w,
                                                  !.n = game_tree'[i].n,
                                                  !.virtual_loss = game_tree'[i].virtual_loss]
                /\ \A i \in Slots \ InSeq(chain) : game_tree'[i] = game_tree[i]
                /\ 0 \notin InSeq(chain)
                /\ UNCHANGED <<node_index, node_used_count, prev_root, root, root_pos>>
    ]_vars

\* A playout that ended two levels below a root has been backpropagated:
\* the leaf, its parent and the root have each been visited.
C25_Witness ==
    \E i \in Slots \ {0} :
        LET chain == ParentChain(game_tree, i, ArenaSize)
        IN  /\ completed[i] >= 1
            /\ Len(chain) = 3
            /\ \A d \in 1..3 : game_tree[chain[d]].n >= 1
            /\ game_tree[chain[2]].w > 0

\* set_root(position, reuse) is called and does not keep a child of the
\* previous root.
FreshCall(position, reuse) ==
    /\ SetRoot(position, reuse)
    /\ \/ ~reuse
       \/ ~game_tree[prev_root].is_used
       \/ Ply(position) = 0
       \/ \A c \in InSeq(game_tree[prev_root].children) :
              game_tree[c].m # position[Ply(position)]

\* C26 (as claimed): a set_root with reuse = false, or with no live previous
\* root, or at ply 0, or with no child of the previous root carrying the last
\* move, returns index 1 and leaves slot 1 the only live slot, with n = 0,
\* w = 0, virtual_loss = 0, parent = 0, no children and is_terminal = false,
\* whatever tree there was before.
C26_FreshRoot ==
    [][\A position \in Positions, reuse \in BOOLEAN :
          FreshCall(position, reuse) =>
              /\ root' = 1 /\ prev_root' = 1
              /\ Live(game_tree') = {1}
              /\ game_tree'[1].n = 0
              /\ game_tree'[1].w = 0
              /\ game_tree'[1].virtual_loss = 0
              /\ game_tree'[1].parent = 0
              /\ game_tree'[1].children = <<>>
              /\ game_tree'[1].is_terminal = FALSE]_vars

\* set_root can be called on a searched tree whose root, kept by an earlier
\* reuse, is not at index 1.
C26_Witness ==
    /\ Quiescent /\ root = prev_root /\ prev_root > 1
    /\ Expanded(game_tree[prev_root])
    /\ Completed >= 1

\* The same with slot 1 taken again by a node below that root.
C26_WitnessSlotOne ==
    /\ C26_Witness
    /\ game_tree[1].is_used

(***************************************************************************)
(* The number of decrements of target pruning.                             *)
(***************************************************************************)
NonBestChildren ==
    InSeq(game_tree[root].children) \ {SelectNMaxChild(game_tree, root)}

\* The first child of the root, in children order, with the greatest n.
FirstWithMaxN(child) ==
    \E j \in 1..Len(game_tree[root].children) :
        LET children == game_tree[root].children
        IN  /\ children[j] = child
            /\ \A i \in 1..Len(children) : game_tree[children[i]].n <= game_tree[child].n
            /\ \A i \in 1..(j - 1) : game_tree[children[i]].n < game_tree[child].n

\* None of the first `most` decrements of the child's n, the root's count
\* lowered alongside, brings the child's PUCT up to the reference.
NeverReachesBest(child, most) ==
    \A r \in 1..most :
        GetPuct([game_tree[child] EXCEPT !.n = @ - r], game_tree[root].n - r, FALSE)
            < BestPuct

Max0(x) == IF x < 0 THEN 0 ELSE x

\* C27 (as claimed): target pruning decrements the n of a non-best child with
\* prior p, under a root of count N, at most ceil(sqrt(2 * p * N)) - 1 times,
\* and exactly that many times when its n is large enough and no decrement
\* brings its PUCT up to the reference; the best child, the first child with
\* the maximum n, keeps its n.
C27_DecrementBound ==
    (DumpReady /\ Expanded(game_tree[root])) =>
        /\ \A child \in NonBestChildren :
              LET most == Max0(NForcedCeil(game_tree[child], game_tree[root].n) - 1)
              IN  /\ 0 <= Removed(child) /\ Removed(child) <= most
                  /\ (game_tree[child].n >= most /\ NeverReachesBest(child, most))
                         => Removed(child) = most
        /\ \A child \in InSeq(game_tree[root].children) :
              FirstWithMaxN(child) => Removed(child) = 0

\* C27 (amended): the same with floor(sqrt(2 * p * N)) - 1 in place of
\* ceil(sqrt(2 * p * N)) - 1, and no decrement when that is below 1.
C27_FloorDecrementBound ==
    (DumpReady /\ Expanded(game_tree[root])) =>
        /\ \A child \in NonBestChildren :
              LET most == Max0(Isqrt((2 * game_tree[child].p * game_tree[root].n)
                                         \div P_ONE) - 1)
              IN  /\ 0 <= Removed(child) /\ Removed(child) <= most
                  /\ (game_tree[child].n >= most /\ NeverReachesBest(child, most))
                         => Removed(child) = most
        /\ \A child \in InSeq(game_tree[root].children) :
              FirstWithMaxN(child) => Removed(child) = 0

\* A dump takes from a non-best child every visit the bound allows, one or
\* more, where sqrt(2 * p * N) is not an integer.
C27_Witness ==
    /\ DumpReady /\ Expanded(game_tree[root])
    /\ \E child \in NonBestChildren :
          LET floor == Isqrt((2 * game_tree[child].p * game_tree[root].n) \div P_ONE)
          IN  /\ Removed(child) = floor - 1
              /\ Removed(child) >= 1
              /\ floor < NForcedCeil(game_tree[child], game_tree[root].n)

(***************************************************************************)
(* sample on full reservoirs, some of whose records have no learning       *)
(* target.  The reservoir is filled by load from a file of max_size lines. *)
(***************************************************************************)
MaxFile == 3

\* A record with an empty learning_target_plys.
NoTargetLine == [valid |-> TRUE, id |-> 0, plys |-> <<>>]

SampleLines == GoodLines \cup {NoTargetLine}

InitSample ==
    /\ ThreadsIdle /\ NoSearch
    /\ \E max \in 1..MaxFile, lines \in [1..MaxFile -> SampleLines] :
          LET file == SubSeq(lines, 1, max)
              st == LoadLines([records |-> <<>>, learning_targets |-> <<>>, log |-> <<>>,
                               max_size |-> max, ok |-> TRUE, io |-> "none",
                               pushed |-> <<>>], file)
          IN  /\ records = st.records
              /\ learning_targets = st.learning_targets
              /\ max_size = max
              /\ log = st.log
              /\ pushed = st.pushed
              /\ result = [op |-> "load", lines |-> file, ok |-> st.ok, io |-> st.io]
    /\ write_count = 0
    /\ read_count = 0
    /\ calls = 0
    /\ all_ok = TRUE

NextSample ==
    \E mini_batch_size \in 0..MaxBatch :
        \E draws \in SampleDraws(learning_targets, max_size, mini_batch_size) : Sample(draws)

SpecSample == InitSample /\ [][NextSample]_vars

\* c[k], the number of plies stored in the first k records.
PrefixSum(k) == CumulativePlys(learning_targets, k)

\* The record whose plies are numbered from c[r] to c[r + 1] - 1 holds index i.
Holds(r, i) == PrefixSum(r) <= i /\ i < PrefixSum(r + 1)

\* The target the loop of sample gives index i when it is the only one drawn.
TargetOf(i) == TargetsLoop(learning_targets, max_size, <<i>>, 0)[1]

\* C28 (as claimed): with the prefix sums c[0..k] of the learning-target
\* lists, sample maps every index i it drew to the one record r with
\* c[r] <= i < c[r + 1] and to the ply learning_targets[r][i - c[r]], also
\* where records have an empty list and where the search starts from the
\* record found for the index before; every stored ply of every record is the
\* image of exactly one index.
C28_IndexMapping ==
    /\ (result.op = "sample" /\ result.ok) =>
          \A k \in 1..result.batch :
              LET i == result.indicies[k]
                  r == result.targets[k][1]
                  ply == result.targets[k][2]
              IN  /\ 0 <= i /\ i < PrefixSum(max_size)
                  /\ r \in 0..(max_size - 1)
                  /\ Holds(r, i)
                  /\ \A r2 \in 0..(max_size - 1) : Holds(r2, i) => r2 = r
                  /\ ply = learning_targets[r + 1][i - PrefixSum(r) + 1]
    /\ ~SamplePanics(learning_targets, max_size) =>
          \A r \in 0..(max_size - 1) : \A j \in 1..Len(learning_targets[r + 1]) :
              Cardinality({i \in 0..(PrefixSum(max_size) - 1) :
                              /\ TargetOf(i) = <<r, learning_targets[r + 1][j]>>
                              /\ i - PrefixSum(r) + 1 = j}) = 1

\* A sample of two indices: the second lies in a later record, with a record
\* without learning targets in between, and is not the first ply of its record.
C28_Witness ==
    /\ result.op = "sample" /\ result.ok /\ result.batch = 2
    /\ result.targets[1][1] + 2 = result.targets[2][1]
    /\ Len(learning_targets[result.targets[1][1] + 2]) = 0
    /\ result.indicies[2] > PrefixSum(result.targets[2][1])

(***************************************************************************)
(* The slots evaluate gives to the children it creates.                    *)
(***************************************************************************)
\* The children an evaluate appended to the node's list.
Appended(node) ==
    SubSeq(game_tree'[node].children, Len(game_tree[node].children) + 1,
           Len(game_tree'[node].children))

\* C29 (as claimed): every child evaluate creates is put in a slot that was
\* free and is not slot 0, also when the probe cursor wraps; no live node,
\* the node being expanded and the root included, is overwritten; the
\* children of one expansion have pairwise distinct indices.
C29_SafeAllocation ==
    [][\A e \in Pending, policy \in PolicyVecs, value \in Values :
          Evaluate(e, policy, value) =>
              LET new == Appended(e.leaf)
              IN  /\ \A c \in InSeq(new) :
                         /\ c # 0
                         /\ ~game_tree[c].is_used
                         /\ game_tree'[c].is_used
                         /\ game_tree'[c].parent = e.leaf
                  /\ Cardinality(InSeq(new)) = Len(new)
                  /\ Live(game_tree') = Live(game_tree) \cup InSeq(new)
                  /\ \A i \in Live(game_tree) \ {e.leaf} : game_tree'[i] = game_tree[i]
                  /\ game_tree'[e.leaf] =
                         [game_tree[e.leaf] EXCEPT
                              !.children = game_tree[e.leaf].children \o new,
                              !.is_terminal = game_tree'[e.leaf].is_terminal,
                              !.v = game_tree'[e.leaf].v]
                  /\ game_tree[e.leaf].is_used /\ game_tree[root].is_used
                  /\ ~game_tree'[0].is_used]_vars

\* An expansion has put a child in slot 1, the cursor having passed the end
\* of the arena, under a parent at a higher index.
C29_Witness ==
    \E i \in Live(game_tree) :
        /\ i > 1
        /\ 1 \in InSeq(game_tree[i].children)
        /\ game_tree[1].is_used /\ game_tree[1].parent = i

(***************************************************************************)
(* The search with clear also called between searches.                     *)
(***************************************************************************)
\* clear(), mcts.rs:118-126: the engine is left without a root.
ClearCall ==
    /\ UNCHANGED <<resVars, callerVars>>
    /\ mpc = "ready"
    /\ inflight = EmptyBag
    /\ SetEngine(Clear(Engine))
    /\ root' = 0
    /\ root_pos' = <<>>
    /\ completed' = [i \in Slots |-> 0]
    /\ UNCHANGED <<inflight, mpc, probe>>

NextClear == NextTree \/ ClearCall

SpecClear == InitTree /\ [][NextClear]_vars

C30_WitnessCleared ==
    /\ root = 0 /\ prev_root = 0
    /\ Live(game_tree) = {}
    /\ node_used_count = 1

\* The fields of a node a query may not change.
SameStatistics(a, b) ==
    /\ a.n = b.n
    /\ a.w = b.w
    /\ a.v = b.v
    /\ a.p = b.p
    /\ a.children = b.children

\* C31 (as claimed): dump is a read-only query: after
\* dump(root, target_pruning, remove_zeros), for either value of
\* target_pruning, every node has the n, w, v, p and children it had before,
\* and a dump repeated at once with the same arguments returns the same
\* triple.
C31_DumpReadOnly ==
    (DumpReady /\ Expanded(game_tree[root])) =>
        \A target_pruning \in BOOLEAN, remove_zeros \in BOOLEAN :
            LET first == DumpOp(game_tree, root, target_pruning, remove_zeros)
                again == DumpOp(first.tree, root, target_pruning, remove_zeros)
            IN  /\ \A i \in Slots : SameStatistics(first.tree[i], game_tree[i])
                /\ again.out = first.out

\* The same of dump without target pruning.
C31_PlainDumpReadOnly ==
    (DumpReady /\ Expanded(game_tree[root])) =>
        \A remove_zeros \in BOOLEAN :
            LET first == DumpOp(game_tree, root, FALSE, remove_zeros)
                again == DumpOp(first.tree, root, FALSE, remove_zeros)
            IN  /\ first.tree = game_tree
                /\ again.out = first.out

\* C32 (as claimed): on every way a push call ends, a line that does not
\* deserialize and a failing log write included, write_count is back to the
\* value it had before the call, so that the calls of push and sample made
\* afterwards are not kept waiting.
C32_WriterSlotReleased ==
    [][\A line \in JsonLines, outcome \in LogOutcomes :
          Push(line, outcome) => write_count' = write_count]_vars

\* The same of the push calls that end without a panic.
C32_ReleasedOnSuccess ==
    [][\A line \in JsonLines, outcome \in LogOutcomes :
          (Push(line, outcome) /\ result'.ok) => write_count' = write_count]_vars

====
